---- MODULE Spec2Model ----
(***************************************************************************)
(* State-machine model of the pig-logistics simulator                      *)
(* (src/proyecto/src): the entities Farm, Slaughterhouse and Transport,    *)
(* the Router's daily planning and the Simulator's day loop.               *)
(*                                                                         *)
(* Number representation.  Python floats are modelled by exact             *)
(* arithmetic: farm weights, loads, hours and distances are integers       *)
(* (inputs are drawn so that every division the code performs on them is   *)
(* exact), and the quotients the code forms at route completion (average   *)
(* weight, revenue, trip cost, accumulated mass) are rationals [n, d] in   *)
(* lowest terms.  Locations lie on one meridian, `lat` counting steps of   *)
(* one hour of travel, so the haversine distance is proportional to the    *)
(* latitude difference.                                                    *)
(***************************************************************************)
EXTENDS Integers, Sequences, FiniteSets, TLC

(***************************************************************************)
(* Bounds of the model.                                                    *)
(***************************************************************************)
MaxDays == 6
MaxFarms == 2
MaxSlaughterhouses == 2
MaxTransports == 2
MaxApiCalls == 3
MaxCallsBeforeRun == 1
MaxPlanFarms == 4
MaxGrowthCalls == 2

(***************************************************************************)
(* Program constants.                                                      *)
(***************************************************************************)
speed_kmh == 60
min_market_weight_kg == 105
max_stops_per_route == 3
max_hours_per_day == 8
LogisticsWeekDays == 5
DaysPerWeek == 7
NeverDelivered == -5
KgPerTon == 1000

(***************************************************************************)
(* Exact arithmetic standing for Python's float operations.                *)
(***************************************************************************)
Max(a, b) == IF a >= b THEN a ELSE b

Min(a, b) == IF a <= b THEN a ELSE b

Min3(a, b, c) == Min(a, Min(b, c))

Abs(x) == IF x < 0 THEN -x ELSE x

RECURSIVE GCD(_, _)
GCD(a, b) == IF b = 0 THEN a ELSE GCD(b, a % b)

\* The rational n/d (d > 0) in lowest terms.
Rat(n, d) == LET g == GCD(Abs(n), d) IN [n |-> n \div g, d |-> d \div g]

R(i) == [n |-> i, d |-> 1]

RAdd(x, y) == Rat(x.n * y.d + y.n * x.d, x.d * y.d)

RMul(x, y) == Rat(x.n * y.n, x.d * y.d)

RLt(x, y) == x.n * y.d < y.n * x.d

RLe(x, y) == x.n * y.d <= y.n * x.d

\* 1 - x
ROneMinus(x) == Rat(x.d - x.n, x.d)

(***************************************************************************)
(* Farm (models/Farm.py).  A farm is a record                              *)
(*   farm_id, lat, inventory_pigs, avg_weight_kg,                          *)
(*   growth_rate_kg_per_week, age_days, pigs_delivered_week,               *)
(*   last_delivery_day, weekly_inventory_history.                          *)
(* age_weeks is kept in days (age_weeks * 7).                              *)
(***************************************************************************)
get_current_weight(farm) == farm.avg_weight_kg

\* Mutant: the day's growth step also calls reset_weekly_counter (Farm.py 103-105).
update_growth_resetting_week(farm, days_passed) ==
    LET weekly_growth == farm.growth_rate_kg_per_week
        daily_growth == weekly_growth \div DaysPerWeek
    IN [farm EXCEPT !.avg_weight_kg = @ + daily_growth * days_passed,
                    !.age_days = @ + days_passed,
                    !.pigs_delivered_week = 0]

\* Mutant: a day adds the growth of a whole week (the division by 7, line 37,
\* is dropped).
update_growth_by_week(farm, days_passed) ==
    LET weekly_growth == farm.growth_rate_kg_per_week
    IN [farm EXCEPT !.avg_weight_kg = @ + weekly_growth * days_passed,
                    !.age_days = @ + days_passed]

update_growth(farm, days_passed) ==
    LET weekly_growth == farm.growth_rate_kg_per_week
        daily_growth == weekly_growth \div DaysPerWeek
    IN [farm EXCEPT !.avg_weight_kg = @ + daily_growth * days_passed,
                    !.age_days = @ + days_passed]

\* Mutant: the logistics-week rule is dropped.
can_deliver_today_any_week(farm, current_day) ==
    farm.inventory_pigs > 0

\* Mutant: the logistics week has 7 days.
can_deliver_today_calendar_week(farm, current_day) ==
    IF farm.inventory_pigs <= 0 THEN FALSE
    ELSE IF farm.last_delivery_day < 0 THEN TRUE
    ELSE LET current_week == current_day \div DaysPerWeek
             last_week == farm.last_delivery_day \div DaysPerWeek
         IN current_week # last_week

can_deliver_today(farm, current_day) ==
    IF farm.inventory_pigs <= 0 THEN FALSE
    ELSE IF farm.last_delivery_day < 0 THEN TRUE
    ELSE LET current_week == current_day \div LogisticsWeekDays
             last_week == farm.last_delivery_day \div LogisticsWeekDays
         IN current_week # last_week

\* Mutant: the inventory check (Farm.py 90-91) is dropped.
deliver_pigs_unchecked_inventory(farm, pigs_count, current_day) ==
    IF pigs_count <= 0 THEN [ok |-> FALSE, farm |-> farm]
    ELSE IF ~can_deliver_today(farm, current_day) THEN [ok |-> FALSE, farm |-> farm]
    ELSE [ok |-> TRUE,
          farm |-> [farm EXCEPT
              !.inventory_pigs = @ - pigs_count,
              !.pigs_delivered_week = @ + pigs_count,
              !.last_delivery_day = current_day,
              !.weekly_inventory_history =
                  Append(@, farm.inventory_pigs - pigs_count)]]

\* Mutant: the eligibility check (Farm.py 93-94) is dropped.
deliver_pigs_any_week(farm, pigs_count, current_day) ==
    IF pigs_count <= 0 THEN [ok |-> FALSE, farm |-> farm]
    ELSE IF pigs_count > farm.inventory_pigs THEN [ok |-> FALSE, farm |-> farm]
    ELSE [ok |-> TRUE,
          farm |-> [farm EXCEPT
              !.inventory_pigs = @ - pigs_count,
              !.pigs_delivered_week = @ + pigs_count,
              !.last_delivery_day = current_day,
              !.weekly_inventory_history =
                  Append(@, farm.inventory_pigs - pigs_count)]]

\* Mutant: a request above the inventory delivers the whole inventory.
deliver_pigs_clipping(farm, pigs_count, current_day) ==
    IF pigs_count <= 0 THEN [ok |-> FALSE, farm |-> farm]
    ELSE IF ~can_deliver_today(farm, current_day) THEN [ok |-> FALSE, farm |-> farm]
    ELSE [ok |-> TRUE,
          farm |-> [farm EXCEPT
              !.inventory_pigs = @ - Min(pigs_count, farm.inventory_pigs),
              !.pigs_delivered_week = @ + Min(pigs_count, farm.inventory_pigs),
              !.last_delivery_day = current_day,
              !.weekly_inventory_history =
                  Append(@, farm.inventory_pigs - Min(pigs_count, farm.inventory_pigs))]]

\* Returns [ok, farm]: the result and the farm after the call.
deliver_pigs(farm, pigs_count, current_day) ==
    IF pigs_count <= 0 THEN [ok |-> FALSE, farm |-> farm]
    ELSE IF pigs_count > farm.inventory_pigs THEN [ok |-> FALSE, farm |-> farm]
    ELSE IF ~can_deliver_today(farm, current_day) THEN [ok |-> FALSE, farm |-> farm]
    ELSE [ok |-> TRUE,
          farm |-> [farm EXCEPT
              !.inventory_pigs = @ - pigs_count,
              !.pigs_delivered_week = @ + pigs_count,
              !.last_delivery_day = current_day,
              !.weekly_inventory_history =
                  Append(@, farm.inventory_pigs - pigs_count)]]

(***************************************************************************)
(* Slaughterhouse (models/Slaughterhouse.py).  A record                    *)
(*   slaughterhouse_id, lat, capacity_per_day, price_per_kg,               *)
(*   penalty_15_min, penalty_15_max, penalty_20_min, penalty_20_max,       *)
(*   pigs_received_today, total_weight_received, daily_history.            *)
(***************************************************************************)
get_available_capacity(sh) == Max(0, sh.capacity_per_day - sh.pigs_received_today)

is_at_capacity(sh) == sh.pigs_received_today >= sh.capacity_per_day

\* Mutant: the band limits themselves are penalised (<= and >= for < and >).
calculate_penalty_closed_bands(sh, avg_weight_kg) ==
    IF RLe(avg_weight_kg, R(sh.penalty_20_min)) \/ RLe(R(sh.penalty_20_max), avg_weight_kg)
    THEN Rat(20, 100)
    ELSE IF RLe(avg_weight_kg, R(sh.penalty_15_min)) \/ RLe(R(sh.penalty_15_max), avg_weight_kg)
    THEN Rat(15, 100)
    ELSE R(0)

\* avg_weight_kg is a rational; the result is the rational penalty fraction.
calculate_penalty(sh, avg_weight_kg) ==
    IF RLt(avg_weight_kg, R(sh.penalty_20_min)) \/ RLt(R(sh.penalty_20_max), avg_weight_kg)
    THEN Rat(20, 100)
    ELSE IF RLt(avg_weight_kg, R(sh.penalty_15_min)) \/ RLt(R(sh.penalty_15_max), avg_weight_kg)
    THEN Rat(15, 100)
    ELSE R(0)

NoReceipt == [error |-> "Escorxador a capacidad maxima"]

\* Mutant: the clip to the available capacity (Slaughterhouse.py 57-58) is dropped.
receive_pigs_unclipped(sh, pigs_requested, avg_weight_kg) ==
    IF is_at_capacity(sh) THEN [ok |-> FALSE, sh |-> sh, receipt |-> NoReceipt]
    ELSE
      LET total_kg_live == RMul(R(pigs_requested), avg_weight_kg)
          penalty == calculate_penalty(sh, avg_weight_kg)
          revenue == RMul(RMul(total_kg_live, R(sh.price_per_kg)), ROneMinus(penalty))
          receipt_info == [pigs_count |-> pigs_requested,
                           avg_weight_kg |-> avg_weight_kg,
                           total_kg_live |-> total_kg_live,
                           penalty_applied |-> penalty,
                           revenue |-> revenue]
      IN [ok |-> TRUE,
          sh |-> [sh EXCEPT !.pigs_received_today = @ + pigs_requested,
                            !.total_weight_received = RAdd(@, total_kg_live),
                            !.daily_history = Append(@, receipt_info)],
          receipt |-> receipt_info]

\* Mutant: the revenue is paid for the pigs requested, not for the pigs received.
receive_pigs_paying_request(sh, pigs_requested, avg_weight_kg) ==
    IF is_at_capacity(sh) THEN [ok |-> FALSE, sh |-> sh, receipt |-> NoReceipt]
    ELSE
      LET pigs_count == IF pigs_requested > get_available_capacity(sh)
                        THEN get_available_capacity(sh) ELSE pigs_requested
          total_kg_live == RMul(R(pigs_count), avg_weight_kg)
          penalty == calculate_penalty(sh, avg_weight_kg)
          revenue == RMul(RMul(RMul(R(pigs_requested), avg_weight_kg), R(sh.price_per_kg)),
                          ROneMinus(penalty))
          receipt_info == [pigs_count |-> pigs_count,
                           avg_weight_kg |-> avg_weight_kg,
                           total_kg_live |-> total_kg_live,
                           penalty_applied |-> penalty,
                           revenue |-> revenue]
      IN [ok |-> TRUE,
          sh |-> [sh EXCEPT !.pigs_received_today = @ + pigs_count,
                            !.total_weight_received = RAdd(@, total_kg_live),
                            !.daily_history = Append(@, receipt_info)],
          receipt |-> receipt_info]

\* Returns [ok, sh, receipt].
receive_pigs(sh, pigs_requested, avg_weight_kg) ==
    IF is_at_capacity(sh) THEN [ok |-> FALSE, sh |-> sh, receipt |-> NoReceipt]
    ELSE
      LET pigs_count == IF pigs_requested > get_available_capacity(sh)
                        THEN get_available_capacity(sh) ELSE pigs_requested
          total_kg_live == RMul(R(pigs_count), avg_weight_kg)
          penalty == calculate_penalty(sh, avg_weight_kg)
          revenue == RMul(RMul(total_kg_live, R(sh.price_per_kg)), ROneMinus(penalty))
          receipt_info == [pigs_count |-> pigs_count,
                           avg_weight_kg |-> avg_weight_kg,
                           total_kg_live |-> total_kg_live,
                           penalty_applied |-> penalty,
                           revenue |-> revenue]
      IN [ok |-> TRUE,
          sh |-> [sh EXCEPT !.pigs_received_today = @ + pigs_count,
                            !.total_weight_received = RAdd(@, total_kg_live),
                            !.daily_history = Append(@, receipt_info)],
          receipt |-> receipt_info]

reset_daily_counter(sh) ==
    [sh EXCEPT !.pigs_received_today = 0, !.total_weight_received = R(0)]

(***************************************************************************)
(* Transport (models/Transport.py).  A record                              *)
(*   transport_id, capacity_tons, cost_per_km, max_hours_per_week,         *)
(*   current_load_kg, pigs_aboard, status, current_route,                  *)
(*   hours_used_this_week, routes_completed.                               *)
(* current_route is <<>> for None and <<route>> for an attached Route.     *)
(***************************************************************************)
TransportStatus == {"available", "in_transit", "loading", "full", "maintenance"}

capacity_kg(transport) == transport.capacity_tons * KgPerTon

get_available_capacity_kg(transport) ==
    Max(0, capacity_kg(transport) - transport.current_load_kg)

get_available_capacity_pigs(transport, avg_pig_weight_kg) ==
    IF avg_pig_weight_kg <= 0 THEN 0
    ELSE get_available_capacity_kg(transport) \div avg_pig_weight_kg

\* Mutant: the weekly hours must stay strictly below the maximum.
can_use_hours_strict(transport, hours_needed) ==
    (transport.hours_used_this_week + hours_needed) < transport.max_hours_per_week

can_use_hours(transport, hours_needed) ==
    (transport.hours_used_this_week + hours_needed) <= transport.max_hours_per_week

\* Mutant: the clip to the available payload (Transport.py 83-85) is dropped.
load_pigs_unclipped(transport, pigs_requested, avg_weight_kg) ==
    IF pigs_requested = 0 THEN [ok |-> FALSE, loaded |-> 0, transport |-> transport]
    ELSE [ok |-> TRUE, loaded |-> pigs_requested,
          transport |-> [transport EXCEPT
              !.current_load_kg = @ + pigs_requested * avg_weight_kg,
              !.pigs_aboard = @ + pigs_requested]]

\* Mutant: a request that does not fit in full is refused (no partial load).
load_pigs_all_or_nothing(transport, pigs_requested, avg_weight_kg) ==
    LET clipped == pigs_requested * avg_weight_kg > get_available_capacity_kg(transport)
        weight_needed_kg == pigs_requested * avg_weight_kg
    IN IF clipped \/ pigs_requested = 0
       THEN [ok |-> FALSE, loaded |-> 0, transport |-> transport]
       ELSE [ok |-> TRUE, loaded |-> pigs_requested,
             transport |-> [transport EXCEPT !.current_load_kg = @ + weight_needed_kg,
                                             !.pigs_aboard = @ + pigs_requested]]

\* Returns [ok, loaded, transport].
load_pigs(transport, pigs_requested, avg_weight_kg) ==
    LET clipped == pigs_requested * avg_weight_kg > get_available_capacity_kg(transport)
        pigs_count == IF clipped
                      THEN get_available_capacity_pigs(transport, avg_weight_kg)
                      ELSE pigs_requested
        weight_needed_kg == pigs_count * avg_weight_kg
    IN IF pigs_count = 0 THEN [ok |-> FALSE, loaded |-> 0, transport |-> transport]
       ELSE [ok |-> TRUE, loaded |-> pigs_count,
             transport |-> [transport EXCEPT !.current_load_kg = @ + weight_needed_kg,
                                             !.pigs_aboard = @ + pigs_count]]

NewRoute(route_id, slaughterhouse_id) ==
    [route_id |-> route_id, farms_visited |-> <<>>,
     total_distance_km |-> 0, total_time_hours |-> 0,
     pigs_loaded |-> 0, current_load_kg |-> 0, trip_cost |-> R(0),
     slaughterhouse_id |-> slaughterhouse_id]

start_route(transport, route_id, slaughterhouse_id) ==
    [transport EXCEPT !.status = "loading",
                      !.current_route = <<NewRoute(route_id, slaughterhouse_id)>>]

\* Mutant: the cost is flat per kilometre (the load factor of line 117 is dropped).
complete_route_flat_cost(transport, distance_km, time_hours) ==
    IF transport.current_route = <<>>
    THEN [ok |-> FALSE, transport |-> transport, info |-> [error |-> "No hay ruta activa"]]
    ELSE IF ~can_use_hours(transport, time_hours)
    THEN [ok |-> FALSE, transport |-> transport,
          info |-> [error |-> "Horas insuficientes esta semana"]]
    ELSE
      LET trip_cost == R(distance_km * transport.cost_per_km)
          done == [transport.current_route[1] EXCEPT
                      !.total_distance_km = distance_km,
                      !.total_time_hours = time_hours,
                      !.pigs_loaded = transport.pigs_aboard,
                      !.current_load_kg = transport.current_load_kg,
                      !.trip_cost = trip_cost]
          route_info == [route_id |-> done.route_id,
                         distance_km |-> distance_km,
                         time_hours |-> time_hours,
                         pigs_delivered |-> transport.pigs_aboard,
                         load_kg |-> transport.current_load_kg,
                         cost |-> trip_cost]
      IN [ok |-> TRUE,
          transport |-> [transport EXCEPT
              !.routes_completed = Append(@, done),
              !.hours_used_this_week = @ + time_hours,
              !.current_load_kg = 0,
              !.pigs_aboard = 0,
              !.current_route = <<>>,
              !.status = "available"],
          info |-> route_info]

\* Mutant: route_info is built after the load and the pigs aboard have been reset
\* (lines 128-137 after 139-140).
complete_route_reporting_reset(transport, distance_km, time_hours) ==
    IF transport.current_route = <<>>
    THEN [ok |-> FALSE, transport |-> transport, info |-> [error |-> "No hay ruta activa"]]
    ELSE IF ~can_use_hours(transport, time_hours)
    THEN [ok |-> FALSE, transport |-> transport,
          info |-> [error |-> "Horas insuficientes esta semana"]]
    ELSE
      LET trip_cost == RMul(R(distance_km * transport.cost_per_km),
                            Rat(transport.current_load_kg, capacity_kg(transport)))
          done == [transport.current_route[1] EXCEPT
                      !.total_distance_km = distance_km,
                      !.total_time_hours = time_hours,
                      !.pigs_loaded = transport.pigs_aboard,
                      !.current_load_kg = transport.current_load_kg,
                      !.trip_cost = trip_cost]
          route_info == [route_id |-> done.route_id,
                         distance_km |-> distance_km,
                         time_hours |-> time_hours,
                         pigs_delivered |-> 0,
                         load_kg |-> 0,
                         cost |-> trip_cost]
      IN [ok |-> TRUE,
          transport |-> [transport EXCEPT
              !.routes_completed = Append(@, done),
              !.hours_used_this_week = @ + time_hours,
              !.current_load_kg = 0,
              !.pigs_aboard = 0,
              !.current_route = <<>>,
              !.status = "available"],
          info |-> route_info]

\* Returns [ok, transport, info].
complete_route(transport, distance_km, time_hours) ==
    IF transport.current_route = <<>>
    THEN [ok |-> FALSE, transport |-> transport, info |-> [error |-> "No hay ruta activa"]]
    ELSE IF ~can_use_hours(transport, time_hours)
    THEN [ok |-> FALSE, transport |-> transport,
          info |-> [error |-> "Horas insuficientes esta semana"]]
    ELSE
      LET trip_cost == RMul(R(distance_km * transport.cost_per_km),
                            Rat(transport.current_load_kg, capacity_kg(transport)))
          done == [transport.current_route[1] EXCEPT
                      !.total_distance_km = distance_km,
                      !.total_time_hours = time_hours,
                      !.pigs_loaded = transport.pigs_aboard,
                      !.current_load_kg = transport.current_load_kg,
                      !.trip_cost = trip_cost]
          route_info == [route_id |-> done.route_id,
                         distance_km |-> distance_km,
                         time_hours |-> time_hours,
                         pigs_delivered |-> transport.pigs_aboard,
                         load_kg |-> transport.current_load_kg,
                         cost |-> trip_cost]
      IN [ok |-> TRUE,
          transport |-> [transport EXCEPT
              !.routes_completed = Append(@, done),
              !.hours_used_this_week = @ + time_hours,
              !.current_load_kg = 0,
              !.pigs_aboard = 0,
              !.current_route = <<>>,
              !.status = "available"],
          info |-> route_info]

(***************************************************************************)
(* Router (simulation/Router.py).  Farms, slaughterhouses and transports   *)
(* are the sequences F, S, T in input order; an object reference is the    *)
(* index into its sequence, which is also its id (ids are unique).  None   *)
(* is the index 0.  A PlannedStop is [farm, pigs_to_pick]; a PlannedRoute  *)
(* is [day, transport, slaughterhouse, stops, distance_km, time_hours].    *)
(***************************************************************************)
\* One step of latitude is one hour of travel at speed_kmh.
KmPerStep == speed_kmh

haversine_km(lat1, lat2) == KmPerStep * Abs(lat2 - lat1)

RECURSIVE PathLegs(_, _)
PathLegs(F, farms_path) ==
    IF Len(farms_path) < 2 THEN 0
    ELSE haversine_km(F[farms_path[1]].lat, F[farms_path[2]].lat)
         + PathLegs(F, Tail(farms_path))

route_distance_km(F, sh, farms_path) ==
    IF farms_path = <<>> THEN 0
    ELSE haversine_km(sh.lat, F[farms_path[1]].lat)
         + PathLegs(F, farms_path)
         + haversine_km(F[farms_path[Len(farms_path)]].lat, sh.lat)

\* list.sort(key=weight, reverse=True): stable, heaviest first.
RECURSIVE SortedInsert(_, _, _)
SortedInsert(F, sorted, x) ==
    IF sorted = <<>> THEN <<x>>
    ELSE IF get_current_weight(F[Head(sorted)]) >= get_current_weight(F[x])
    THEN <<Head(sorted)>> \o SortedInsert(F, Tail(sorted), x)
    ELSE <<x>> \o sorted

RECURSIVE sort_by_weight_desc(_, _)
sort_by_weight_desc(F, ids) ==
    IF ids = <<>> THEN <<>>
    ELSE SortedInsert(F, sort_by_weight_desc(F, SubSeq(ids, 1, Len(ids) - 1)),
                      ids[Len(ids)])

\* Mutant: the market-weight test of the candidates (lines 121-122) is dropped.
RECURSIVE FilterCandidates_any_weight(_, _, _)
FilterCandidates_any_weight(F, current_day, i) ==
    IF i > Len(F) THEN <<>>
    ELSE LET farm == F[i]
             skip == \/ farm.inventory_pigs <= 0
                     \/ ~can_deliver_today(farm, current_day)
         IN (IF skip THEN <<>> ELSE <<i>>) \o FilterCandidates_any_weight(F, current_day, i + 1)

RECURSIVE FilterCandidates(_, _, _)
FilterCandidates(F, current_day, i) ==
    IF i > Len(F) THEN <<>>
    ELSE LET farm == F[i]
             skip == \/ farm.inventory_pigs <= 0
                     \/ ~can_deliver_today(farm, current_day)
                     \/ get_current_weight(farm) < min_market_weight_kg
         IN (IF skip THEN <<>> ELSE <<i>>) \o FilterCandidates(F, current_day, i + 1)

select_candidate_farms(F, current_day) ==
    sort_by_weight_desc(F, FilterCandidates(F, current_day, 1))

\* Mutant: the first slaughterhouse with capacity is taken, however far it is.
first_slaughterhouse_with_capacity(S, farm, remaining_capacity_sh) ==
    IF \E i \in 1..Len(S) : remaining_capacity_sh[i] > 0
    THEN CHOOSE i \in 1..Len(S) :
             /\ remaining_capacity_sh[i] > 0
             /\ \A j \in 1..(i - 1) : remaining_capacity_sh[j] <= 0
    ELSE 0

\* Scan of self.slaughterhouses from index i on; best is [sh, dist], sh = 0 for None.
RECURSIVE NearestScan(_, _, _, _, _)
NearestScan(S, farm, remaining_capacity_sh, i, best) ==
    IF i > Len(S) THEN best.sh
    ELSE NearestScan(S, farm, remaining_capacity_sh, i + 1,
             IF remaining_capacity_sh[i] <= 0 THEN best
             ELSE IF best.sh = 0 \/ haversine_km(farm.lat, S[i].lat) < best.dist
             THEN [sh |-> i, dist |-> haversine_km(farm.lat, S[i].lat)]
             ELSE best)

nearest_slaughterhouse_with_capacity(S, farm, remaining_capacity_sh) ==
    NearestScan(S, farm, remaining_capacity_sh, 1, [sh |-> 0, dist |-> 0])

has_any_remaining_pigs(remaining_pigs) ==
    \E k \in DOMAIN remaining_pigs : remaining_pigs[k] > 0

RECURSIVE FilterFeasible(_, _, _, _, _)
FilterFeasible(F, current_day, candidate_farms, remaining_pigs, i) ==
    IF i > Len(candidate_farms) THEN <<>>
    ELSE (IF remaining_pigs[candidate_farms[i]] > 0
             /\ can_deliver_today(F[candidate_farms[i]], current_day)
          THEN <<candidate_farms[i]>> ELSE <<>>)
         \o FilterFeasible(F, current_day, candidate_farms, remaining_pigs, i + 1)

\* The weight of the pigs of a list of stops, at the farms' current weights.
RECURSIVE SumLoad(_, _)
SumLoad(F, stops) ==
    IF stops = <<>> THEN 0
    ELSE Head(stops).pigs_to_pick * get_current_weight(F[Head(stops).farm])
         + SumLoad(F, Tail(stops))

InRoute(f, farms_in_route) == \E k \in 1..Len(farms_in_route) : farms_in_route[k] = f

NoCandidate == [farm |-> 0, incremental |-> 0, new_distance |-> 0, pigs_to_pick |-> 0]

\* Mutant: the slaughterhouse's remaining capacity is left out of pigs_possible.
consider_candidate_ignoring_sh(F, sh, current_day, st, f, best) ==
    LET avg_w == get_current_weight(F[f])
        max_pigs_by_truck == st.remaining_capacity_kg \div avg_w
        pigs_possible == Min(max_pigs_by_truck, st.remaining_pigs[f])
        skip == \/ st.remaining_pigs[f] <= 0
                \/ InRoute(f, st.farms_in_route)
                \/ ~can_deliver_today(F[f], current_day)
                \/ avg_w <= 0
                \/ max_pigs_by_truck <= 0
                \/ pigs_possible <= 0
        current_dist == route_distance_km(F, sh, st.farms_in_route)
        new_dist == route_distance_km(F, sh, Append(st.farms_in_route, f))
        incremental == new_dist - current_dist
    IN IF skip THEN best
       ELSE IF best.farm = 0 \/ incremental < best.incremental
       THEN [farm |-> f, incremental |-> incremental,
             new_distance |-> new_dist, pigs_to_pick |-> pigs_possible]
       ELSE best

\* Mutant: pigs_possible reads the farm's inventory, not the working map
\* remaining_pigs (line 218).
consider_candidate_reading_inventory(F, sh, current_day, st, f, best) ==
    LET avg_w == get_current_weight(F[f])
        max_pigs_by_truck == st.remaining_capacity_kg \div avg_w
        pigs_possible == Min3(max_pigs_by_truck, F[f].inventory_pigs, st.sh_remaining_cap)
        skip == \/ st.remaining_pigs[f] <= 0
                \/ InRoute(f, st.farms_in_route)
                \/ ~can_deliver_today(F[f], current_day)
                \/ avg_w <= 0
                \/ max_pigs_by_truck <= 0
                \/ pigs_possible <= 0
        current_dist == route_distance_km(F, sh, st.farms_in_route)
        new_dist == route_distance_km(F, sh, Append(st.farms_in_route, f))
        incremental == new_dist - current_dist
    IN IF skip THEN best
       ELSE IF best.farm = 0 \/ incremental < best.incremental
       THEN [farm |-> f, incremental |-> incremental,
             new_distance |-> new_dist, pigs_to_pick |-> pigs_possible]
       ELSE best

\* Mutant: max_pigs_by_truck is taken from the whole payload of the transport, not
\* from the payload left after the stops already selected (line 212).
consider_candidate_whole_payload(F, sh, current_day, st, f, best) ==
    LET avg_w == get_current_weight(F[f])
        whole_payload_kg == st.remaining_capacity_kg + SumLoad(F, st.selected_stops)
        max_pigs_by_truck == whole_payload_kg \div avg_w
        pigs_possible == Min3(max_pigs_by_truck, st.remaining_pigs[f], st.sh_remaining_cap)
        skip == \/ st.remaining_pigs[f] <= 0
                \/ InRoute(f, st.farms_in_route)
                \/ ~can_deliver_today(F[f], current_day)
                \/ avg_w <= 0
                \/ max_pigs_by_truck <= 0
                \/ pigs_possible <= 0
        current_dist == route_distance_km(F, sh, st.farms_in_route)
        new_dist == route_distance_km(F, sh, Append(st.farms_in_route, f))
        incremental == new_dist - current_dist
    IN IF skip THEN best
       ELSE IF best.farm = 0 \/ incremental < best.incremental
       THEN [farm |-> f, incremental |-> incremental,
             new_distance |-> new_dist, pigs_to_pick |-> pigs_possible]
       ELSE best

\* Mutant: the first candidate that is not skipped is kept, whatever the
\* incremental distance of the later ones (line 232).
consider_candidate_keeping_first(F, sh, current_day, st, f, best) ==
    LET avg_w == get_current_weight(F[f])
        max_pigs_by_truck == st.remaining_capacity_kg \div avg_w
        pigs_possible == Min3(max_pigs_by_truck, st.remaining_pigs[f], st.sh_remaining_cap)
        skip == \/ st.remaining_pigs[f] <= 0
                \/ InRoute(f, st.farms_in_route)
                \/ ~can_deliver_today(F[f], current_day)
                \/ avg_w <= 0
                \/ max_pigs_by_truck <= 0
                \/ pigs_possible <= 0
        current_dist == route_distance_km(F, sh, st.farms_in_route)
        new_dist == route_distance_km(F, sh, Append(st.farms_in_route, f))
        incremental == new_dist - current_dist
    IN IF skip THEN best
       ELSE IF best.farm = 0
       THEN [farm |-> f, incremental |-> incremental,
             new_distance |-> new_dist, pigs_to_pick |-> pigs_possible]
       ELSE best

\* Mutant: the candidate of the largest incremental distance is kept (line 232).
consider_candidate_farthest(F, sh, current_day, st, f, best) ==
    LET avg_w == get_current_weight(F[f])
        max_pigs_by_truck == st.remaining_capacity_kg \div avg_w
        pigs_possible == Min3(max_pigs_by_truck, st.remaining_pigs[f], st.sh_remaining_cap)
        skip == \/ st.remaining_pigs[f] <= 0
                \/ InRoute(f, st.farms_in_route)
                \/ ~can_deliver_today(F[f], current_day)
                \/ avg_w <= 0
                \/ max_pigs_by_truck <= 0
                \/ pigs_possible <= 0
        current_dist == route_distance_km(F, sh, st.farms_in_route)
        new_dist == route_distance_km(F, sh, Append(st.farms_in_route, f))
        incremental == new_dist - current_dist
    IN IF skip THEN best
       ELSE IF best.farm = 0 \/ incremental > best.incremental
       THEN [farm |-> f, incremental |-> incremental,
             new_distance |-> new_dist, pigs_to_pick |-> pigs_possible]
       ELSE best

\* Mutant: of candidates of equal incremental distance the last one scanned is
\* kept (<= for < in line 232).
consider_candidate_last_wins(F, sh, current_day, st, f, best) ==
    LET avg_w == get_current_weight(F[f])
        max_pigs_by_truck == st.remaining_capacity_kg \div avg_w
        pigs_possible == Min3(max_pigs_by_truck, st.remaining_pigs[f], st.sh_remaining_cap)
        skip == \/ st.remaining_pigs[f] <= 0
                \/ InRoute(f, st.farms_in_route)
                \/ ~can_deliver_today(F[f], current_day)
                \/ avg_w <= 0
                \/ max_pigs_by_truck <= 0
                \/ pigs_possible <= 0
        current_dist == route_distance_km(F, sh, st.farms_in_route)
        new_dist == route_distance_km(F, sh, Append(st.farms_in_route, f))
        incremental == new_dist - current_dist
    IN IF skip THEN best
       ELSE IF best.farm = 0 \/ incremental <= best.incremental
       THEN [farm |-> f, incremental |-> incremental,
             new_distance |-> new_dist, pigs_to_pick |-> pigs_possible]
       ELSE best

\* The body of the for-loop over candidate_farms (Router.py 200-236) for the
\* candidate f: the best candidate after it, given the best before it.
consider_candidate(F, sh, current_day, st, f, best) ==
    LET avg_w == get_current_weight(F[f])
        max_pigs_by_truck == st.remaining_capacity_kg \div avg_w
        pigs_possible == Min3(max_pigs_by_truck, st.remaining_pigs[f], st.sh_remaining_cap)
        skip == \/ st.remaining_pigs[f] <= 0
                \/ InRoute(f, st.farms_in_route)
                \/ ~can_deliver_today(F[f], current_day)
                \/ avg_w <= 0
                \/ max_pigs_by_truck <= 0
                \/ pigs_possible <= 0
        current_dist == route_distance_km(F, sh, st.farms_in_route)
        new_dist == route_distance_km(F, sh, Append(st.farms_in_route, f))
        incremental == new_dist - current_dist
    IN IF skip THEN best
       ELSE IF best.farm = 0 \/ incremental < best.incremental
       THEN [farm |-> f, incremental |-> incremental,
             new_distance |-> new_dist, pigs_to_pick |-> pigs_possible]
       ELSE best

RECURSIVE ScanCandidates(_, _, _, _, _, _, _)
ScanCandidates(F, sh, current_day, candidate_farms, st, i, best) ==
    IF i > Len(candidate_farms) THEN best
    ELSE ScanCandidates(F, sh, current_day, candidate_farms, st, i + 1,
             consider_candidate(F, sh, current_day, st, candidate_farms[i], best))

\* Mutant: the pigs of an appended stop stay in remaining_pigs (line 251 dropped).
append_stop_keeping_pigs(F, st, best) ==
    [st EXCEPT
        !.farms_in_route = Append(@, best.farm),
        !.distance_km = best.new_distance,
        !.sh_remaining_cap = @ - best.pigs_to_pick,
        !.remaining_capacity_kg = @ - best.pigs_to_pick * get_current_weight(F[best.farm]),
        !.selected_stops = Append(@, [farm |-> best.farm, pigs_to_pick |-> best.pigs_to_pick])]

\* The route under construction after best has been appended (Router.py 247-254).
append_stop(F, st, best) ==
    [st EXCEPT
        !.farms_in_route = Append(@, best.farm),
        !.distance_km = best.new_distance,
        !.sh_remaining_cap = @ - best.pigs_to_pick,
        !.remaining_capacity_kg = @ - best.pigs_to_pick * get_current_weight(F[best.farm]),
        !.remaining_pigs[best.farm] = @ - best.pigs_to_pick,
        !.selected_stops = Append(@, [farm |-> best.farm, pigs_to_pick |-> best.pigs_to_pick])]

route_time_hours(distance_km) == IF speed_kmh > 0 THEN distance_km \div speed_kmh ELSE 0

\* The while loop of _build_route_for_transport (Router.py 194-257): st is the
\* route under construction; more is FALSE once the loop has been left.
RECURSIVE BuildStops(_, _, _, _, _, _)
\* Mutant: the check of the day's hours (lines 241-245) is dropped.
while_step_ignoring_hours(F, current_hours_used, st, best) ==
    IF best.farm = 0 THEN [st EXCEPT !.more = FALSE]
    ELSE [append_stop(F, st, best) EXCEPT
             !.more = ~(st.remaining_capacity_kg
                           - best.pigs_to_pick * get_current_weight(F[best.farm]) <= 0
                        \/ st.sh_remaining_cap - best.pigs_to_pick <= 0)]

while_step(F, current_hours_used, st, best) ==
    IF best.farm = 0 THEN [st EXCEPT !.more = FALSE]
    ELSE IF current_hours_used + route_time_hours(best.new_distance) > max_hours_per_day
    THEN [st EXCEPT !.more = FALSE, !.aborted = (st.farms_in_route = <<>>)]
    ELSE [append_stop(F, st, best) EXCEPT
             !.more = ~(st.remaining_capacity_kg
                           - best.pigs_to_pick * get_current_weight(F[best.farm]) <= 0
                        \/ st.sh_remaining_cap - best.pigs_to_pick <= 0)]

\* Mutant: the loop has no bound on the number of stops (line 194).
RECURSIVE BuildStops_any_length(_, _, _, _, _, _)
BuildStops_any_length(F, sh, current_day, candidate_farms, current_hours_used, st) ==
    IF ~st.more THEN st
    ELSE BuildStops_any_length(F, sh, current_day, candidate_farms, current_hours_used,
             while_step(F, current_hours_used, st,
                 ScanCandidates(F, sh, current_day, candidate_farms, st, 1, NoCandidate)))

BuildStops(F, sh, current_day, candidate_farms, current_hours_used, st) ==
    IF ~st.more \/ ~(Len(st.farms_in_route) < max_stops_per_route) THEN st
    ELSE BuildStops(F, sh, current_day, candidate_farms, current_hours_used,
             while_step(F, current_hours_used, st,
                 ScanCandidates(F, sh, current_day, candidate_farms, st, 1, NoCandidate)))

\* Mutant: the slaughterhouse's remaining capacity is not written back (line 264).
finish_route_no_writeback(t, current_day, initial_sh, remaining_pigs, remaining_capacity_sh, st) ==
    IF st.aborted \/ st.selected_stops = <<>>
    THEN [route |-> <<>>, remaining_pigs |-> remaining_pigs,
          remaining_capacity_sh |-> remaining_capacity_sh]
    ELSE [route |-> <<[day |-> current_day,
                       transport |-> t.transport_id,
                       slaughterhouse |-> initial_sh,
                       stops |-> st.selected_stops,
                       distance_km |-> st.distance_km,
                       time_hours |-> route_time_hours(st.distance_km)]>>,
          remaining_pigs |-> st.remaining_pigs,
          remaining_capacity_sh |-> remaining_capacity_sh]

\* The end of _build_route_for_transport (Router.py 259-273) for the finished loop
\* state st.  Returns [route, remaining_pigs, remaining_capacity_sh]: route is <<>>
\* for None, and the two maps are the caller's dictionaries after the call.
finish_route(t, current_day, initial_sh, remaining_pigs, remaining_capacity_sh, st) ==
    IF st.aborted \/ st.selected_stops = <<>>
    THEN [route |-> <<>>, remaining_pigs |-> remaining_pigs,
          remaining_capacity_sh |-> remaining_capacity_sh]
    ELSE [route |-> <<[day |-> current_day,
                       transport |-> t.transport_id,
                       slaughterhouse |-> initial_sh,
                       stops |-> st.selected_stops,
                       distance_km |-> st.distance_km,
                       time_hours |-> route_time_hours(st.distance_km)]>>,
          remaining_pigs |-> st.remaining_pigs,
          remaining_capacity_sh |->
              [remaining_capacity_sh EXCEPT ![initial_sh] = st.sh_remaining_cap]]

\* _build_route_for_transport from the choice of the slaughterhouse on
\* (Router.py 179-273); initial_sh = 0 is None.
route_to(F, S, t, current_day, candidate_farms, remaining_pigs, remaining_capacity_sh, current_hours_used, initial_sh) ==
    IF initial_sh = 0 \/ remaining_capacity_sh[initial_sh] <= 0
    THEN [route |-> <<>>, remaining_pigs |-> remaining_pigs,
          remaining_capacity_sh |-> remaining_capacity_sh]
    ELSE finish_route(t, current_day, initial_sh, remaining_pigs, remaining_capacity_sh,
             BuildStops(F, S[initial_sh], current_day, candidate_farms, current_hours_used,
                 [farms_in_route |-> <<>>, selected_stops |-> <<>>,
                  distance_km |-> 0,
                  sh_remaining_cap |-> remaining_capacity_sh[initial_sh],
                  remaining_capacity_kg |-> t.capacity_tons * KgPerTon,
                  remaining_pigs |-> remaining_pigs,
                  more |-> TRUE,
                  aborted |-> FALSE]))

\* The seed of a new route (Router.py 166-174): 0 when no farm is feasible.
seed_farm(F, current_day, candidate_farms, remaining_pigs) ==
    LET feasible_farms == sort_by_weight_desc(F,
            FilterFeasible(F, current_day, candidate_farms, remaining_pigs, 1))
    IN IF feasible_farms = <<>> THEN 0 ELSE feasible_farms[1]

build_route_from_seed(F, S, t, current_day, candidate_farms, remaining_pigs, remaining_capacity_sh, current_hours_used, seed) ==
    IF seed = 0
    THEN [route |-> <<>>, remaining_pigs |-> remaining_pigs,
          remaining_capacity_sh |-> remaining_capacity_sh]
    ELSE route_to(F, S, t, current_day, candidate_farms, remaining_pigs,
                  remaining_capacity_sh, current_hours_used,
                  nearest_slaughterhouse_with_capacity(S, F[seed], remaining_capacity_sh))

build_route_for_transport(F, S, t, current_day, candidate_farms, remaining_pigs, remaining_capacity_sh, current_hours_used) ==
    build_route_from_seed(F, S, t, current_day, candidate_farms, remaining_pigs,
                          remaining_capacity_sh, current_hours_used,
                          seed_farm(F, current_day, candidate_farms, remaining_pigs))

\* The loops of build_daily_plan (Router.py 305-321) from transport ti on; w is
\* [planned_routes, remaining_pigs, remaining_capacity_sh, daily_hours, ti], and
\* b the result of the call of _build_route_for_transport in the loop body.
loop_step(w, b) ==
    IF b.route = <<>> THEN [w EXCEPT !.ti = @ + 1]
    ELSE [w EXCEPT !.planned_routes = Append(@, b.route[1]),
                   !.remaining_pigs = b.remaining_pigs,
                   !.remaining_capacity_sh = b.remaining_capacity_sh,
                   !.daily_hours[w.ti] = @ + b.route[1].time_hours]

any_sh_capacity(remaining_capacity_sh) ==
    \E k \in DOMAIN remaining_capacity_sh : remaining_capacity_sh[k] > 0

RECURSIVE PlanLoop(_, _, _, _, _, _)
PlanLoop(F, S, T, current_day, candidate_farms, w) ==
    IF w.ti > Len(T) THEN w.planned_routes
    ELSE IF w.daily_hours[w.ti] < max_hours_per_day
            /\ has_any_remaining_pigs(w.remaining_pigs)
            /\ any_sh_capacity(w.remaining_capacity_sh)
    THEN PlanLoop(F, S, T, current_day, candidate_farms,
             loop_step(w, build_route_for_transport(F, S, T[w.ti], current_day,
                              candidate_farms, w.remaining_pigs, w.remaining_capacity_sh,
                              w.daily_hours[w.ti])))
    ELSE PlanLoop(F, S, T, current_day, candidate_farms, [w EXCEPT !.ti = @ + 1])

\* Mutant: the plan starts from capacity_per_day, not from get_available_capacity()
\* (line 293).
plan_for_candidates_full_capacity(F, S, T, current_day, candidate_farms) ==
    IF candidate_farms = <<>> \/ T = <<>> \/ S = <<>> THEN <<>>
    ELSE PlanLoop(F, S, T, current_day, candidate_farms,
             [planned_routes |-> <<>>,
              remaining_pigs |-> [f \in 1..Len(F) |->
                  IF InRoute(f, candidate_farms) THEN F[f].inventory_pigs ELSE 0],
              remaining_capacity_sh |-> [k \in 1..Len(S) |-> S[k].capacity_per_day],
              daily_hours |-> [k \in 1..Len(T) |-> 0],
              ti |-> 1])

plan_for_candidates(F, S, T, current_day, candidate_farms) ==
    IF candidate_farms = <<>> \/ T = <<>> \/ S = <<>> THEN <<>>
    ELSE PlanLoop(F, S, T, current_day, candidate_farms,
             [planned_routes |-> <<>>,
              remaining_pigs |-> [f \in 1..Len(F) |->
                  IF InRoute(f, candidate_farms) THEN F[f].inventory_pigs ELSE 0],
              remaining_capacity_sh |-> [k \in 1..Len(S) |-> get_available_capacity(S[k])],
              daily_hours |-> [k \in 1..Len(T) |-> 0],
              ti |-> 1])

build_daily_plan(F, S, T, current_day) ==
    plan_for_candidates(F, S, T, current_day, select_candidate_farms(F, current_day))

\* Mutant: the planner counts the pigs down in the candidate farms themselves,
\* not in its map remaining_pigs.
entities_after_plan_consuming(F, S, T, current_day) ==
    [farms |-> [f \in 1..Len(F) |->
                   IF T # <<>> /\ S # <<>> /\ InRoute(f, select_candidate_farms(F, current_day))
                   THEN [F[f] EXCEPT !.inventory_pigs = 0]
                   ELSE F[f]],
     slaughterhouses |-> S,
     transports |-> T]

\* The entity lists the Router holds (Router.py 63-65) after build_daily_plan: the
\* planner assigns only to its locals planned_routes, remaining_pigs,
\* remaining_capacity_sh and daily_hours, and sorts copies of the lists.
entities_after_plan(F, S, T, current_day) ==
    [farms |-> F, slaughterhouses |-> S, transports |-> T]

(***************************************************************************)
(* Simulator (simulation/Simulator.py).                                    *)
(*                                                                         *)
(* pc is the position in Simulator.run:                                    *)
(*   "growth"  top of the day loop (before the growth step of `day`)       *)
(*   "plan"    growth done, before build_daily_plan                        *)
(*   "start"   before _execute_route of planned_routes[route_index + 1]    *)
(*   "stop"    inside its loop over the stops, before stop `stop_index`    *)
(*   "finish"  after the loop over the stops                               *)
(*   "reset"   all routes of the day executed, before the daily reset      *)
(*   "done"    run has returned                                            *)
(*   "api_..." no run: the methods of one entity are called directly       *)
(*   "api_router" no run: build_daily_plan is called directly              *)
(***************************************************************************)
VARIABLES farms, slaughterhouses, transports,  \* the entity lists, input order
          events,          \* Simulator._events
          day,             \* the loop variable of Simulator.run
          pc,
          planned_routes,  \* the plan of the current day
          route_index,     \* enumerate index of the route being executed
          stop_index,      \* position in the loop over its stops
          loc,             \* locals of _execute_route
          executed,        \* history: what each executed route did
          initial_farms,   \* history: the farms as constructed
          api_calls,       \* number of direct method calls made
          ret              \* what the last direct method call returned

vars == <<farms, slaughterhouses, transports, events, day, pc, planned_routes,
          route_index, stop_index, loc, executed, initial_farms, api_calls, ret>>

NoLocals == [total_pigs_loaded |-> 0, total_weight_kg |-> 0, farms_visited_ids |-> <<>>]

\* Mutant: the day is left out of the route identifier (line 126).
route_identifier_without_day(d, idx) == <<"day", 0, "_r", idx>>

route_identifier(d, idx) == <<"day", d, "_r", idx>>

\* One iteration of the loop over the stops (Simulator.py 138-156).
\* Returns [farm, transport, loc].
execute_stop(farm, transport, stop, current_day, l) ==
    LET pigs_requested == stop.pigs_to_pick
        current_weight == get_current_weight(farm)
        d == deliver_pigs(farm, pigs_requested, current_day)
        ld == load_pigs(transport, pigs_requested, current_weight)
    IN IF ~d.ok THEN [farm |-> farm, transport |-> transport, loc |-> l]
       ELSE IF ~ld.ok \/ ld.loaded <= 0
       THEN [farm |-> d.farm, transport |-> ld.transport, loc |-> l]
       ELSE [farm |-> d.farm, transport |-> ld.transport,
             loc |-> [total_pigs_loaded |-> l.total_pigs_loaded + ld.loaded,
                      total_weight_kg |-> l.total_weight_kg + ld.loaded * current_weight,
                      farms_visited_ids |-> Append(l.farms_visited_ids, farm.farm_id)]]

\* Mutant: the event is appended although complete_route failed (the check of
\* tr_ok, Simulator.py 180-181, is dropped).
execute_finish_always_logs(transport, sh, planned, l, current_day, idx) ==
    IF l.total_pigs_loaded <= 0
    THEN [transport |-> [transport EXCEPT !.current_load_kg = 0,
                                          !.pigs_aboard = 0,
                                          !.current_route = <<>>],
          sh |-> sh, appended |-> <<>>,
          sh_called |-> FALSE, sh_ok |-> FALSE, tr_called |-> FALSE, tr_ok |-> FALSE,
          receipt |-> NoReceipt]
    ELSE
      LET avg_weight == Rat(l.total_weight_kg, l.total_pigs_loaded)
          r == receive_pigs(sh, l.total_pigs_loaded, avg_weight)
          c == complete_route(transport, planned.distance_km, planned.time_hours)
          event == [day |-> current_day,
                    route_index |-> idx,
                    route_id |-> route_identifier(current_day, idx),
                    transport_id |-> transport.transport_id,
                    slaughterhouse_id |-> sh.slaughterhouse_id,
                    farms_visited |-> l.farms_visited_ids,
                    pigs_delivered |-> l.total_pigs_loaded,
                    avg_weight_kg |-> avg_weight,
                    distance_km |-> planned.distance_km,
                    time_hours |-> planned.time_hours,
                    transport_cost |-> IF c.ok THEN c.info.cost ELSE R(0),
                    revenue |-> r.receipt.revenue,
                    penalty_applied |-> r.receipt.penalty_applied]
      IN IF ~r.ok
         THEN [transport |-> transport, sh |-> sh, appended |-> <<>>,
               sh_called |-> TRUE, sh_ok |-> FALSE, tr_called |-> FALSE, tr_ok |-> FALSE,
               receipt |-> r.receipt]
         ELSE [transport |-> c.transport, sh |-> r.sh, appended |-> <<event>>,
               sh_called |-> TRUE, sh_ok |-> TRUE, tr_called |-> TRUE, tr_ok |-> c.ok,
               receipt |-> r.receipt]

\* The part of _execute_route after the loop (Simulator.py 158-203).
\* Returns [transport, sh, appended, sh_called, sh_ok, tr_called, tr_ok, receipt]:
\* the two entities after the call, the events appended to the log, and which
\* of receive_pigs / complete_route were called and what they returned.
execute_finish(transport, sh, planned, l, current_day, idx) ==
    IF l.total_pigs_loaded <= 0
    THEN [transport |-> [transport EXCEPT !.current_load_kg = 0,
                                          !.pigs_aboard = 0,
                                          !.current_route = <<>>],
          sh |-> sh, appended |-> <<>>,
          sh_called |-> FALSE, sh_ok |-> FALSE, tr_called |-> FALSE, tr_ok |-> FALSE,
          receipt |-> NoReceipt]
    ELSE
      LET avg_weight == Rat(l.total_weight_kg, l.total_pigs_loaded)
          r == receive_pigs(sh, l.total_pigs_loaded, avg_weight)
          c == complete_route(transport, planned.distance_km, planned.time_hours)
          event == [day |-> current_day,
                    route_index |-> idx,
                    route_id |-> route_identifier(current_day, idx),
                    transport_id |-> transport.transport_id,
                    slaughterhouse_id |-> sh.slaughterhouse_id,
                    farms_visited |-> l.farms_visited_ids,
                    pigs_delivered |-> l.total_pigs_loaded,
                    avg_weight_kg |-> avg_weight,
                    distance_km |-> planned.distance_km,
                    time_hours |-> planned.time_hours,
                    transport_cost |-> c.info.cost,
                    revenue |-> r.receipt.revenue,
                    penalty_applied |-> r.receipt.penalty_applied]
      IN IF ~r.ok
         THEN [transport |-> transport, sh |-> sh, appended |-> <<>>,
               sh_called |-> TRUE, sh_ok |-> FALSE, tr_called |-> FALSE, tr_ok |-> FALSE,
               receipt |-> r.receipt]
         ELSE IF ~c.ok
         THEN [transport |-> transport, sh |-> r.sh, appended |-> <<>>,
               sh_called |-> TRUE, sh_ok |-> TRUE, tr_called |-> TRUE, tr_ok |-> FALSE,
               receipt |-> r.receipt]
         ELSE [transport |-> c.transport, sh |-> r.sh, appended |-> <<event>>,
               sh_called |-> TRUE, sh_ok |-> TRUE, tr_called |-> TRUE, tr_ok |-> TRUE,
               receipt |-> r.receipt]

(***************************************************************************)
(* Initial states: the entities as main.py constructs them from the data   *)
(* rows (counters at their dataclass defaults), for every choice of rows.  *)
(***************************************************************************)
FarmRows ==
    { [inventory_pigs |-> 50, avg_weight_kg |-> 110, growth_rate_kg_per_week |-> 0, lat |-> 1],
      [inventory_pigs |-> 5,  avg_weight_kg |-> 103, growth_rate_kg_per_week |-> 7, lat |-> 2],
      [inventory_pigs |-> 12, avg_weight_kg |-> 114, growth_rate_kg_per_week |-> 7, lat |-> 1] }

SlaughterhouseRows ==
    { [capacity_per_day |-> 10,   lat |-> 0],
      [capacity_per_day |-> 1000, lat |-> 0] }

TransportRows ==
    { [capacity_tons |-> 5, max_hours_per_week |-> 40],
      [capacity_tons |-> 1, max_hours_per_week |-> 3] }

\* The slaughterhouses of the direct calls of the planner: one more, on the far
\* side of the farms.
PlanSlaughterhouseRows ==
    SlaughterhouseRows \cup { [capacity_per_day |-> 10, lat |-> 4] }

\* The farms of the runs: one more, near the slaughterhouses, that reaches the
\* market weight a day after the farm of the second row.
RunFarmRows ==
    FarmRows \cup { [inventory_pigs |-> 5, avg_weight_kg |-> 102, growth_rate_kg_per_week |-> 7, lat |-> 1] }

SeqsUpTo(S, n) == UNION { [1..k -> S] : k \in 1..n }

NewFarm(id, row) ==
    [farm_id |-> id, lat |-> row.lat,
     inventory_pigs |-> row.inventory_pigs,
     avg_weight_kg |-> row.avg_weight_kg,
     growth_rate_kg_per_week |-> row.growth_rate_kg_per_week,
     age_days |-> 0,
     pigs_delivered_week |-> 0,
     last_delivery_day |-> NeverDelivered,
     weekly_inventory_history |-> <<>>]

NewSlaughterhouse(id, row) ==
    [slaughterhouse_id |-> id, lat |-> row.lat,
     capacity_per_day |-> row.capacity_per_day,
     price_per_kg |-> 2,
     penalty_15_min |-> 105, penalty_15_max |-> 115,
     penalty_20_min |-> 100, penalty_20_max |-> 120,
     pigs_received_today |-> 0,
     total_weight_received |-> R(0),
     daily_history |-> <<>>]

NewTransport(id, row) ==
    [transport_id |-> id,
     capacity_tons |-> row.capacity_tons,
     cost_per_km |-> 1,
     max_hours_per_week |-> row.max_hours_per_week,
     current_load_kg |-> 0,
     pigs_aboard |-> 0,
     status |-> "available",
     current_route |-> <<>>,
     hours_used_this_week |-> 0,
     routes_completed |-> <<>>]

NoReturn == [op |-> "none"]

ApiModes == {"api_farm", "api_sh", "api_transport"}

InitEntities(maxF, maxS, maxT) ==
    \E fr \in SeqsUpTo(FarmRows, maxF),
       sr \in SeqsUpTo(SlaughterhouseRows, maxS),
       tr \in SeqsUpTo(TransportRows, maxT) :
        /\ farms = [i \in 1..Len(fr) |-> NewFarm(i, fr[i])]
        /\ slaughterhouses = [i \in 1..Len(sr) |-> NewSlaughterhouse(i, sr[i])]
        /\ transports = [i \in 1..Len(tr) |-> NewTransport(i, tr[i])]

InitRunEntities ==
    \E fr \in SeqsUpTo(RunFarmRows, MaxFarms),
       sr \in SeqsUpTo(SlaughterhouseRows, MaxSlaughterhouses),
       tr \in SeqsUpTo(TransportRows, MaxTransports) :
        /\ farms = [i \in 1..Len(fr) |-> NewFarm(i, fr[i])]
        /\ slaughterhouses = [i \in 1..Len(sr) |-> NewSlaughterhouse(i, sr[i])]
        /\ transports = [i \in 1..Len(tr) |-> NewTransport(i, tr[i])]

InitPlanEntities ==
    \E fr \in SeqsUpTo(FarmRows, MaxPlanFarms),
       sr \in SeqsUpTo(PlanSlaughterhouseRows, MaxSlaughterhouses),
       tr \in SeqsUpTo(TransportRows, MaxTransports) :
        /\ farms = [i \in 1..Len(fr) |-> NewFarm(i, fr[i])]
        /\ slaughterhouses = [i \in 1..Len(sr) |-> NewSlaughterhouse(i, sr[i])]
        /\ transports = [i \in 1..Len(tr) |-> NewTransport(i, tr[i])]

Init ==
    /\ \/ pc = "growth" /\ InitRunEntities
       \/ pc \in ApiModes /\ InitEntities(1, 1, 1)
       \/ pc = "api_router" /\ InitPlanEntities
    /\ initial_farms = farms
    /\ events = <<>>
    /\ day = 0
    /\ planned_routes = <<>>
    /\ route_index = 0
    /\ stop_index = 0
    /\ loc = NoLocals
    /\ executed = <<>>
    /\ api_calls = 0
    /\ ret = NoReturn

(***************************************************************************)
(* Simulator.run and _simulate_single_day.                                 *)
(***************************************************************************)
\* Step 1 of _simulate_single_day: growth of every farm.
SimulateDay_Growth ==
    /\ pc = "growth"
    /\ day < MaxDays
    /\ farms' = [i \in 1..Len(farms) |-> update_growth(farms[i], 1)]
    /\ pc' = "plan"
    /\ UNCHANGED <<slaughterhouses, transports, events, day, planned_routes, route_index,
                   stop_index, loc, executed, initial_farms, api_calls, ret>>

\* Step 2: the plan; with an empty plan the day returns at once (line 100-102).
SimulateDay_Plan ==
    /\ pc = "plan"
    /\ LET plan == build_daily_plan(farms, slaughterhouses, transports, day)
           after == entities_after_plan(farms, slaughterhouses, transports, day)
       IN /\ planned_routes' = plan
          /\ farms' = after.farms
          /\ slaughterhouses' = after.slaughterhouses
          /\ transports' = after.transports
          /\ IF plan = <<>>
             THEN pc' = "growth" /\ day' = day + 1
             ELSE pc' = "start" /\ day' = day
    /\ route_index' = 0
    /\ UNCHANGED <<events, stop_index, loc, executed, initial_farms, api_calls, ret>>

\* _execute_route up to the loop over the stops (lines 119-136).
ExecuteRoute_Start ==
    /\ pc = "start"
    /\ LET planned == planned_routes[route_index + 1]
           t == planned.transport
       IN /\ planned.stops # <<>>
          /\ transports' = [transports EXCEPT ![t] =
                 start_route(@, route_identifier(day, route_index), planned.slaughterhouse)]
    /\ loc' = NoLocals
    /\ stop_index' = 1
    /\ pc' = "stop"
    /\ UNCHANGED <<farms, slaughterhouses, events, day, planned_routes, route_index,
                   executed, initial_farms, api_calls, ret>>

\* One stop of the route.
ExecuteRoute_Stop ==
    /\ pc = "stop"
    /\ LET planned == planned_routes[route_index + 1]
           stop == planned.stops[stop_index]
           t == planned.transport
           x == execute_stop(farms[stop.farm], transports[t], stop, day, loc)
       IN /\ farms' = [farms EXCEPT ![stop.farm] = x.farm]
          /\ transports' = [transports EXCEPT ![t] = x.transport]
          /\ loc' = x.loc
          /\ pc' = IF stop_index = Len(planned.stops) THEN "finish" ELSE "stop"
    /\ stop_index' = stop_index + 1
    /\ UNCHANGED <<slaughterhouses, events, day, planned_routes, route_index,
                   executed, initial_farms, api_calls, ret>>

\* The rest of _execute_route, and the step of the loop over the routes.
ExecuteRoute_Finish ==
    /\ pc = "finish"
    /\ LET planned == planned_routes[route_index + 1]
           t == planned.transport
           s == planned.slaughterhouse
           x == execute_finish(transports[t], slaughterhouses[s], planned, loc,
                               day, route_index)
       IN /\ transports' = [transports EXCEPT ![t] = x.transport]
          /\ slaughterhouses' = [slaughterhouses EXCEPT ![s] = x.sh]
          /\ events' = events \o x.appended
          /\ executed' = Append(executed,
                 [day |-> day, route_index |-> route_index,
                  route_id |-> route_identifier(day, route_index),
                  transport |-> t, slaughterhouse |-> s,
                  total_pigs_loaded |-> loc.total_pigs_loaded,
                  sh_called |-> x.sh_called, sh_ok |-> x.sh_ok,
                  tr_called |-> x.tr_called, tr_ok |-> x.tr_ok,
                  receipt |-> x.receipt,
                  received_before |-> slaughterhouses[s].pigs_received_today])
    /\ route_index' = route_index + 1
    /\ pc' = IF route_index + 1 < Len(planned_routes) THEN "start" ELSE "reset"
    /\ UNCHANGED <<farms, day, planned_routes, stop_index, loc, initial_farms, api_calls, ret>>

\* Step 4: the daily reset of every slaughterhouse, and the step of the day loop.
SimulateDay_Reset ==
    /\ pc = "reset"
    /\ slaughterhouses' = [i \in 1..Len(slaughterhouses) |->
                               reset_daily_counter(slaughterhouses[i])]
    /\ day' = day + 1
    /\ pc' = "growth"
    /\ UNCHANGED <<farms, transports, events, planned_routes, route_index, stop_index,
                   loc, executed, initial_farms, api_calls, ret>>

\* run(days) returns when the loop variable reaches days: the argument is any
\* day count the loop has reached.
Run_Return ==
    /\ pc = "growth"
    /\ pc' = "done"
    /\ UNCHANGED <<farms, slaughterhouses, transports, events, day, planned_routes,
                   route_index, stop_index, loc, executed, initial_farms, api_calls, ret>>

(***************************************************************************)
(* Direct calls of the methods of one entity, in any order, with any       *)
(* argument: pc names the entity ("api_farm", "api_sh", "api_transport").  *)
(***************************************************************************)
ApiPigs == {-1, 0, 3, 8, 60}

ApiWeights == {99, 110}

\* Weights for load_pigs: the two above and one below zero.
ApiLoadWeights == ApiWeights \cup {-110}

ApiDays == {0, 4, 5}

ApiHours == {2, 3, 4}

ApiQueryDays == 0..10

ApiPenaltyWeights == {99, 100, 104, 105, 110, 115, 116, 120, 121}

ApiCall(target) ==
    /\ pc = target
    /\ api_calls < MaxApiCalls
    /\ api_calls' = api_calls + 1
    /\ UNCHANGED <<events, day, pc, planned_routes, route_index, stop_index, loc,
                   executed, initial_farms>>

Api_can_deliver_today ==
    /\ ApiCall("api_farm")
    /\ \E d \in ApiQueryDays :
           ret' = [op |-> "can_deliver_today", current_day |-> d,
                   value |-> can_deliver_today(farms[1], d)]
    /\ UNCHANGED <<farms, slaughterhouses, transports>>

Api_deliver_pigs ==
    /\ ApiCall("api_farm")
    /\ \E n \in ApiPigs, d \in ApiDays :
           /\ farms' = [farms EXCEPT ![1] = deliver_pigs(@, n, d).farm]
           /\ ret' = [op |-> "deliver_pigs", pigs_count |-> n, current_day |-> d,
                      value |-> deliver_pigs(farms[1], n, d).ok]
    /\ UNCHANGED <<slaughterhouses, transports>>

Api_calculate_penalty ==
    /\ ApiCall("api_sh")
    /\ \E w \in ApiPenaltyWeights :
           ret' = [op |-> "calculate_penalty", avg_weight_kg |-> w,
                   value |-> calculate_penalty(slaughterhouses[1], R(w))]
    /\ UNCHANGED <<farms, slaughterhouses, transports>>

Api_receive_pigs ==
    /\ ApiCall("api_sh")
    /\ \E n \in ApiPigs, w \in ApiWeights :
           /\ slaughterhouses' = [slaughterhouses EXCEPT ![1] = receive_pigs(@, n, R(w)).sh]
           /\ ret' = [op |-> "receive_pigs", pigs_count |-> n, avg_weight_kg |-> w,
                      ok |-> receive_pigs(slaughterhouses[1], n, R(w)).ok,
                      info |-> receive_pigs(slaughterhouses[1], n, R(w)).receipt]
    /\ UNCHANGED <<farms, transports>>

Api_reset_daily_counter ==
    /\ ApiCall("api_sh")
    /\ slaughterhouses' = [slaughterhouses EXCEPT ![1] = reset_daily_counter(@)]
    /\ ret' = [op |-> "reset_daily_counter"]
    /\ UNCHANGED <<farms, transports>>

Api_load_pigs ==
    /\ ApiCall("api_transport")
    /\ \E n \in ApiPigs, w \in ApiLoadWeights :
           /\ transports' = [transports EXCEPT ![1] = load_pigs(@, n, w).transport]
           /\ ret' = [op |-> "load_pigs", pigs_count |-> n, avg_weight_kg |-> w,
                      ok |-> load_pigs(transports[1], n, w).ok,
                      loaded |-> load_pigs(transports[1], n, w).loaded]
    /\ UNCHANGED <<farms, slaughterhouses>>

Api_start_route ==
    /\ ApiCall("api_transport")
    /\ transports' = [transports EXCEPT ![1] = start_route(@, <<"api", api_calls>>, 1)]
    /\ ret' = [op |-> "start_route", value |-> NewRoute(<<"api", api_calls>>, 1)]
    /\ UNCHANGED <<farms, slaughterhouses>>

Api_complete_route ==
    /\ ApiCall("api_transport")
    /\ \E h \in ApiHours :
           /\ transports' = [transports EXCEPT
                  ![1] = complete_route(@, h * speed_kmh, h).transport]
           /\ ret' = [op |-> "complete_route", distance_km |-> h * speed_kmh,
                      time_hours |-> h,
                      ok |-> complete_route(transports[1], h * speed_kmh, h).ok,
                      info |-> complete_route(transports[1], h * speed_kmh, h).info]
    /\ UNCHANGED <<farms, slaughterhouses>>

ApiPlanDays == {0}

\* Farm.update_growth(1) called on every farm, as step 1 of a day does.
Api_update_growth ==
    /\ pc = "api_router"
    /\ ret = NoReturn
    /\ api_calls < MaxGrowthCalls
    /\ api_calls' = api_calls + 1
    /\ farms' = [i \in 1..Len(farms) |-> update_growth(farms[i], 1)]
    /\ UNCHANGED <<slaughterhouses, transports, events, day, pc, planned_routes, route_index,
                   stop_index, loc, executed, initial_farms, ret>>

\* Router.build_daily_plan called directly, on farms that have grown for some days.
Api_build_daily_plan ==
    /\ pc = "api_router"
    /\ ret = NoReturn
    /\ api_calls' = api_calls + 1
    /\ \E d \in ApiPlanDays :
           /\ planned_routes' = build_daily_plan(farms, slaughterhouses, transports, d)
           /\ farms' = entities_after_plan(farms, slaughterhouses, transports, d).farms
           /\ slaughterhouses'
                  = entities_after_plan(farms, slaughterhouses, transports, d).slaughterhouses
           /\ transports' = entities_after_plan(farms, slaughterhouses, transports, d).transports
           /\ ret' = [op |-> "build_daily_plan", current_day |-> d]
    /\ UNCHANGED <<events, day, pc, route_index, stop_index, loc, executed, initial_farms>>

\* Simulator.run on entities that have been used: the slaughterhouse has taken
\* a receipt of some pigs before the run starts (run clears only the event log,
\* line 75).
Api_run ==
    /\ pc = "api_sh"
    /\ api_calls <= MaxCallsBeforeRun
    /\ slaughterhouses[1].pigs_received_today >= 0
    /\ pc' = "growth"
    /\ UNCHANGED <<farms, slaughterhouses, transports, events, day, planned_routes,
                   route_index, stop_index, loc, executed, initial_farms, api_calls, ret>>

Next ==
    \/ SimulateDay_Growth
    \/ SimulateDay_Plan
    \/ ExecuteRoute_Start
    \/ ExecuteRoute_Stop
    \/ ExecuteRoute_Finish
    \/ SimulateDay_Reset
    \/ Run_Return
    \/ Api_can_deliver_today
    \/ Api_deliver_pigs
    \/ Api_calculate_penalty
    \/ Api_receive_pigs
    \/ Api_reset_daily_counter
    \/ Api_load_pigs
    \/ Api_start_route
    \/ Api_complete_route
    \/ Api_run
    \/ Api_update_growth
    \/ Api_build_daily_plan

Spec == Init /\ [][Next]_vars

(***************************************************************************)
(* Properties.                                                             *)
(***************************************************************************)
RunModes == {"growth", "plan", "start", "stop", "finish", "reset", "done"}

Last(seq) == seq[Len(seq)]

\* The history record of the executed route that logged event e.
ExecutedOf(e) == CHOOSE x \in {executed[i] : i \in 1..Len(executed)} : x.route_id = e.route_id

\* C1: every slaughterhouse has pigs_received_today <= capacity_per_day in every
\* reachable state: after any sequence of receive_pigs and reset_daily_counter
\* calls, and at every point of a run.
C1_ReceivedWithinCapacity ==
    \A s \in 1..Len(slaughterhouses) :
        slaughterhouses[s].pigs_received_today <= slaughterhouses[s].capacity_per_day

\* A slaughterhouse filled to its capacity by a second, clipped receipt.
C1_Witness ==
    /\ pc = "api_sh"
    /\ slaughterhouses[1].pigs_received_today = slaughterhouses[1].capacity_per_day
    /\ Len(slaughterhouses[1].daily_history) = 2
    /\ slaughterhouses[1].daily_history[1].pigs_count = 8
    /\ slaughterhouses[1].daily_history[2].pigs_count = 2

\* C2: at every point of a run every transport has current_load_kg <= its payload
\* capacity and hours_used_this_week <= max_hours_per_week, also after routes
\* whose complete_route failed and left the load aboard.
C2_TransportWithinLimits ==
    pc \in RunModes =>
        \A t \in 1..Len(transports) :
            /\ transports[t].current_load_kg <= capacity_kg(transports[t])
            /\ transports[t].hours_used_this_week <= transports[t].max_hours_per_week

\* A route has loaded on top of the load an earlier, failed route left aboard.
C2_Witness ==
    /\ pc = "finish"
    /\ loc.total_pigs_loaded > 0
    /\ transports[planned_routes[route_index + 1].transport].current_load_kg
           > loc.total_weight_kg
    /\ \E i \in 1..Len(executed) :
           /\ executed[i].transport = planned_routes[route_index + 1].transport
           /\ executed[i].tr_called /\ ~executed[i].tr_ok

\* C3: every farm's inventory stays between 0 and its initial inventory, and no
\* step increases it.
C3_InventoryBounded ==
    \A i \in 1..Len(farms) :
        /\ 0 <= farms[i].inventory_pigs
        /\ farms[i].inventory_pigs <= initial_farms[i].inventory_pigs

C3_InventoryNeverIncreases ==
    [][\A i \in 1..Len(farms) : farms'[i].inventory_pigs <= farms[i].inventory_pigs]_vars

C3_Inventory == []C3_InventoryBounded /\ C3_InventoryNeverIncreases

\* A run has ended with a farm that delivered a part of its inventory.
C3_Witness ==
    /\ pc = "done"
    /\ \E i \in 1..Len(farms) :
           /\ 0 < farms[i].inventory_pigs
           /\ farms[i].inventory_pigs < initial_farms[i].inventory_pigs

\* C4: no farm id appears twice in the farms_visited lists of the events of one
\* 5-day block, neither within one event nor in two events.
Visits == { <<i, k>> \in (1..Len(events)) \X (1..max_stops_per_route) :
                k <= Len(events[i].farms_visited) }

C4_OneVisitPerBlock ==
    \A a \in Visits, b \in Visits :
        (/\ a # b
         /\ events[a[1]].day \div LogisticsWeekDays = events[b[1]].day \div LogisticsWeekDays)
        => events[a[1]].farms_visited[a[2]] # events[b[1]].farms_visited[b[2]]

\* A farm was visited in two different blocks, and a second visit planned for it
\* inside one block was refused.
C4_Witness ==
    /\ \E a \in Visits, b \in Visits :
           /\ events[a[1]].day \div LogisticsWeekDays # events[b[1]].day \div LogisticsWeekDays
           /\ events[a[1]].farms_visited[a[2]] = events[b[1]].farms_visited[b[2]]
    /\ \E i \in 1..Len(executed) : executed[i].total_pigs_loaded = 0

\* C5: for every slaughterhouse and day, the pigs_delivered of that day's events
\* for it sum to at most its capacity_per_day (so one slaughterhouse of capacity
\* 10 and one farm offering 50 pigs give at most 10 delivered on day 0).
RECURSIVE DeliveredOn(_, _, _)
DeliveredOn(evs, s, d) ==
    IF evs = <<>> THEN 0
    ELSE (IF Head(evs).day = d /\ Head(evs).slaughterhouse_id = s
          THEN Head(evs).pigs_delivered ELSE 0)
         + DeliveredOn(Tail(evs), s, d)

C5_DailyDeliveriesWithinCapacity ==
    \A s \in 1..Len(slaughterhouses), d \in 0..MaxDays :
        DeliveredOn(events, s, d) <= slaughterhouses[s].capacity_per_day

\* The scenario: capacity 10, one farm with 50 pigs, 1 day run, 10 delivered.
C5_Witness ==
    /\ pc = "done" /\ day = 1
    /\ Len(farms) = 1 /\ initial_farms[1].inventory_pigs = 50
    /\ Len(slaughterhouses) = 1 /\ slaughterhouses[1].capacity_per_day = 10
    /\ DeliveredOn(events, 1, 0) = 10

\* The scenario of C6: one farm with 50 pigs of 110 kg (not growing), one
\* slaughterhouse of capacity 1000 with bands (105,115)/(100,120), one 5-ton
\* transport; run for 1 day.
C6_Scenario ==
    /\ pc = "done" /\ day = 1
    /\ Len(farms) = 1
    /\ initial_farms[1].inventory_pigs = 50
    /\ initial_farms[1].avg_weight_kg = 110
    /\ initial_farms[1].growth_rate_kg_per_week = 0
    /\ Len(slaughterhouses) = 1
    /\ slaughterhouses[1].capacity_per_day = 1000
    /\ slaughterhouses[1].penalty_15_min = 105 /\ slaughterhouses[1].penalty_15_max = 115
    /\ slaughterhouses[1].penalty_20_min = 100 /\ slaughterhouses[1].penalty_20_max = 120
    /\ Len(transports) = 1
    /\ transports[1].capacity_tons = 5

\* C6 (as claimed): the scenario produces exactly one event, delivering 50 pigs
\* with 0% penalty and revenue 50 * 110 * price_per_kg.
C6_Original ==
    C6_Scenario =>
        /\ Len(events) = 1
        /\ events[1].pigs_delivered = 50
        /\ events[1].penalty_applied = R(0)
        /\ events[1].revenue = R(50 * 110 * slaughterhouses[1].price_per_kg)

\* C6 (amended): the scenario produces exactly one event, delivering 45 pigs (the
\* 5-ton transport holds floor(5000 / 110) = 45 of them) with 0% penalty and
\* revenue 45 * 110 * price_per_kg.
C6_SingleFarmScenario ==
    C6_Scenario =>
        /\ Len(events) = 1
        /\ events[1].pigs_delivered = 45
        /\ events[1].penalty_applied = R(0)
        /\ events[1].revenue = R(45 * 110 * slaughterhouses[1].price_per_kg)

C6_Witness == C6_Scenario /\ Len(executed) = 2

\* C7 (as claimed): for every event, pigs_delivered * avg_weight_kg is at most the
\* slaughterhouse's capacity_per_day minus what it had received that day before.
C7_Original ==
    \A i \in 1..Len(events) :
        RLe(RMul(R(events[i].pigs_delivered), events[i].avg_weight_kg),
            R(slaughterhouses[events[i].slaughterhouse_id].capacity_per_day
              - ExecutedOf(events[i]).received_before))

\* C7 (amended): for every event, pigs_delivered (a number of animals, as the
\* capacity is) is at most the slaughterhouse's capacity_per_day minus what it had
\* received that day before this event.
C7_CapacityConservation ==
    \A i \in 1..Len(events) :
        events[i].pigs_delivered
            <= slaughterhouses[events[i].slaughterhouse_id].capacity_per_day
               - ExecutedOf(events[i]).received_before

\* An event of a slaughterhouse that had already received pigs that day.
C7_Witness ==
    \E i \in 1..Len(events) : ExecutedOf(events[i]).received_before > 0

\* C9: an executed route appends exactly one event if it loaded at least one pig
\* and receive_pigs and complete_route both succeeded, and none otherwise; and
\* after a failure the remaining routes of the day are still executed.
Succeeded(x) == x.total_pigs_loaded > 0 /\ x.sh_ok /\ x.tr_ok

RECURSIVE SucceededIds(_)
SucceededIds(xs) ==
    IF xs = <<>> THEN <<>>
    ELSE (IF Succeeded(Head(xs)) THEN <<Head(xs).route_id>> ELSE <<>>)
         \o SucceededIds(Tail(xs))

ExecutedToday == Cardinality({i \in 1..Len(executed) : executed[i].day = day})

C9_OneEventPerSuccessfulRoute ==
    /\ [i \in 1..Len(events) |-> events[i].route_id] = SucceededIds(executed)
    /\ pc \in {"start", "stop", "finish"} => ExecutedToday = route_index
    /\ pc = "reset" => ExecutedToday = Len(planned_routes)

\* A route whose complete_route failed, a route that loaded nothing, and after
\* them a route that was executed and logged.
C9_Witness ==
    \E i \in 1..Len(executed), j \in 1..Len(executed), k \in 1..Len(executed) :
        /\ i < k /\ j < k
        /\ executed[i].tr_called /\ ~executed[i].tr_ok
        /\ executed[j].total_pigs_loaded = 0
        /\ Succeeded(executed[k])

\* C10 (as claimed): a route that loaded nothing leaves its transport with no load,
\* no pigs aboard, no active route and status AVAILABLE, and appends no event.
C10_RollbackToAvailable ==
    (/\ pc \in {"start", "reset"}
     /\ executed # <<>>
     /\ Last(executed).day = day
     /\ Last(executed).total_pigs_loaded = 0)
    => /\ transports[Last(executed).transport].current_load_kg = 0
       /\ transports[Last(executed).transport].pigs_aboard = 0
       /\ transports[Last(executed).transport].current_route = <<>>
       /\ transports[Last(executed).transport].status = "available"
       /\ \A i \in 1..Len(events) : events[i].route_id # Last(executed).route_id

RECURSIVE SumPigs(_)
SumPigs(stops) ==
    IF stops = <<>> THEN 0 ELSE Head(stops).pigs_to_pick + SumPigs(Tail(stops))

RECURSIVE StopsOfFarm(_, _)
StopsOfFarm(routes, f) ==
    IF routes = <<>> THEN <<>>
    ELSE SelectSeq(Head(routes).stops, LAMBDA st : st.farm = f) \o StopsOfFarm(Tail(routes), f)

RECURSIVE StopsToSlaughterhouse(_, _)
StopsToSlaughterhouse(routes, k) ==
    IF routes = <<>> THEN <<>>
    ELSE (IF Head(routes).slaughterhouse = k THEN Head(routes).stops ELSE <<>>)
         \o StopsToSlaughterhouse(Tail(routes), k)

C12_PlanBounded ==
    (pc = "start" /\ route_index = 0) =>
        /\ \A i \in 1..Len(planned_routes) :
               /\ planned_routes[i].stops # <<>>
               /\ \A k \in 1..Len(planned_routes[i].stops) :
                      planned_routes[i].stops[k].pigs_to_pick >= 1
        /\ \A f \in 1..Len(farms) :
               SumPigs(StopsOfFarm(planned_routes, f)) <= farms[f].inventory_pigs
        /\ \A k \in 1..Len(slaughterhouses) :
               SumPigs(StopsToSlaughterhouse(planned_routes, k))
                   <= get_available_capacity(slaughterhouses[k])

\* The position inside a day: it grows with every step of the day, and is bounded
\* by the length of the plan.
PositionInDay ==
    CASE pc = "growth" -> 0
      [] pc = "plan"   -> 1
      [] pc = "start"  -> 2 + route_index * (max_stops_per_route + 2)
      [] pc = "stop"   -> 2 + route_index * (max_stops_per_route + 2) + stop_index
      [] pc = "finish" -> 2 + route_index * (max_stops_per_route + 2) + max_stops_per_route + 1
      [] pc = "reset"  -> 2 + Len(planned_routes) * (max_stops_per_route + 2)
      [] OTHER         -> 0

LaterPosition ==
    /\ day' = day
    /\ PositionInDay' > PositionInDay
    /\ PositionInDay' <= 2 + Len(planned_routes') * (max_stops_per_route + 2)

NextDay == day' = day + 1 /\ pc' = "growth"

C12_RunProgresses ==
    [][(pc \in RunModes) => (pc' = "done" \/ NextDay \/ LaterPosition)]_vars

C12_Termination == []C12_PlanBounded /\ C12_RunProgresses

\* A plan of three routes that takes the whole inventory of a farm in several
\* routes.
C12_Witness ==
    /\ pc = "start" /\ route_index = 0
    /\ Len(planned_routes) >= 3
    /\ \E f \in 1..Len(farms) :
           /\ Len(StopsOfFarm(planned_routes, f)) >= 2
           /\ SumPigs(StopsOfFarm(planned_routes, f)) = farms[f].inventory_pigs

\* C13 (as claimed): at the end of every simulated day, also of a day without
\* routes, every slaughterhouse has pigs_received_today = 0 (and no accumulated
\* weight).
C13_CountersResetEveryDay ==
    (pc = "growth" /\ day >= 1) =>
        \A k \in 1..Len(slaughterhouses) :
            /\ slaughterhouses[k].pigs_received_today = 0
            /\ slaughterhouses[k].total_weight_received = R(0)

\* C14: for a farm with inventory > 0 whose last delivery was on day d,
\* can_deliver_today(d') is false for every d' of the same 5-day block and true
\* for every d' of another block (after a delivery on day 0: false on days 1-4,
\* true on day 5); a farm that never delivered is eligible on every day.
C14_OncePerBlock ==
    (ret.op = "can_deliver_today" /\ farms[1].inventory_pigs > 0) =>
        /\ farms[1].last_delivery_day = NeverDelivered => ret.value
        /\ farms[1].last_delivery_day >= 0 =>
               (ret.value <=> ret.current_day \div 5 # farms[1].last_delivery_day \div 5)
        /\ (farms[1].last_delivery_day = 0 /\ ret.current_day \in 1..4) => ~ret.value
        /\ (farms[1].last_delivery_day = 0 /\ ret.current_day = 5) => ret.value

\* A farm that delivered on day 0 and still has pigs is asked on day 5.
C14_Witness ==
    /\ ret.op = "can_deliver_today" /\ ret.current_day = 5 /\ ret.value
    /\ farms[1].inventory_pigs > 0
    /\ farms[1].last_delivery_day = 0

\* C15: calculate_penalty returns 0 for a weight exactly at the minimum or maximum
\* of the 15% band, 15% one unit outside that band, 20% one unit outside the 20%
\* band; the result is always 0, 15% or 20%, and the 20% test comes first.
C15_PenaltyBoundaries ==
    ret.op = "calculate_penalty" =>
        LET sh == slaughterhouses[1]
            w == ret.avg_weight_kg
        IN /\ ret.value \in {R(0), Rat(15, 100), Rat(20, 100)}
           /\ w \in {sh.penalty_15_min, sh.penalty_15_max} => ret.value = R(0)
           /\ w \in {sh.penalty_15_min - 1, sh.penalty_15_max + 1} => ret.value = Rat(15, 100)
           /\ w \in {sh.penalty_20_min - 1, sh.penalty_20_max + 1} => ret.value = Rat(20, 100)
           /\ (w < sh.penalty_20_min \/ w > sh.penalty_20_max) => ret.value = Rat(20, 100)

\* The penalty of a weight exactly at the minimum of the 15% band was asked.
C15_Witness ==
    /\ ret.op = "calculate_penalty"
    /\ ret.avg_weight_kg = slaughterhouses[1].penalty_15_min
    /\ ret.value = R(0)

\* C16: deliver_pigs(pigs_count, current_day) returns False and leaves every field
\* of the farm as it was when pigs_count <= 0, pigs_count > inventory_pigs or
\* can_deliver_today(current_day) is false; otherwise it returns True, takes
\* exactly pigs_count from the inventory, adds pigs_count to pigs_delivered_week
\* and sets last_delivery_day to current_day.
DeliverCalled == api_calls' = api_calls + 1 /\ ret'.op = "deliver_pigs"

DeliverRefused ==
    /\ ~ret'.value
    /\ farms' = farms

DeliverDone ==
    /\ ret'.value
    /\ farms'[1].inventory_pigs = farms[1].inventory_pigs - ret'.pigs_count
    /\ farms'[1].pigs_delivered_week = farms[1].pigs_delivered_week + ret'.pigs_count
    /\ farms'[1].last_delivery_day = ret'.current_day

C16_DeliverAllOrNothing ==
    [][DeliverCalled =>
          IF \/ ret'.pigs_count <= 0
             \/ ret'.pigs_count > farms[1].inventory_pigs
             \/ ~can_deliver_today(farms[1], ret'.current_day)
          THEN DeliverRefused
          ELSE DeliverDone]_vars

\* A delivery went through, and a later call asking for more than the inventory,
\* in another block, was refused.
C16_Witness ==
    /\ ret.op = "deliver_pigs" /\ ~ret.value
    /\ ret.pigs_count > farms[1].inventory_pigs
    /\ farms[1].inventory_pigs > 0
    /\ farms[1].last_delivery_day >= 0
    /\ can_deliver_today(farms[1], ret.current_day)

\* C17: complete_route(distance_km, time_hours) fails and leaves the transport as
\* it was (load, pigs aboard, hours, status, route, completed routes) when no
\* route is active or hours_used_this_week + time_hours > max_hours_per_week; it
\* succeeds otherwise, also when the sum equals the maximum exactly.
CompleteCalled == api_calls' = api_calls + 1 /\ ret'.op = "complete_route"

C17_CompleteRouteOrUnchanged ==
    [][CompleteCalled =>
          IF \/ transports[1].current_route = <<>>
             \/ transports[1].hours_used_this_week + ret'.time_hours
                    > transports[1].max_hours_per_week
          THEN ~ret'.ok /\ transports' = transports
          ELSE /\ ret'.ok
               /\ transports'[1].hours_used_this_week
                      = transports[1].hours_used_this_week + ret'.time_hours]_vars

\* A loaded transport completed a route that used up its weekly hours exactly.
C17_Witness ==
    /\ ret.op = "complete_route" /\ ret.ok
    /\ ret.info.load_kg > 0
    /\ transports[1].hours_used_this_week = transports[1].max_hours_per_week

\* A loaded transport with an active route was refused for its weekly hours.
C17_WitnessRefused ==
    /\ ret.op = "complete_route" /\ ~ret.ok
    /\ transports[1].current_route # <<>>
    /\ transports[1].current_load_kg > 0

\* C18: receive_pigs(pigs_count, avg_weight_kg) fails without changing
\* pigs_received_today, the accumulated weight or the history when
\* pigs_received_today >= capacity_per_day; otherwise it succeeds, the receipt's
\* pigs_count is min(pigs_count, get_available_capacity()), pigs_received_today
\* grows by exactly that, and revenue = receipt pigs * avg_weight_kg * price_per_kg
\* * (1 - calculate_penalty(avg_weight_kg)).
ReceiveCalled == api_calls' = api_calls + 1 /\ ret'.op = "receive_pigs"

ReceiveRefused ==
    /\ ~ret'.ok
    /\ slaughterhouses' = slaughterhouses

ReceiveDone ==
    /\ ret'.ok
    /\ ret'.info.pigs_count
           = Min(ret'.pigs_count, get_available_capacity(slaughterhouses[1]))
    /\ slaughterhouses'[1].pigs_received_today
           = slaughterhouses[1].pigs_received_today + ret'.info.pigs_count
    /\ ret'.info.revenue
           = RMul(R(ret'.info.pigs_count * ret'.avg_weight_kg
                    * slaughterhouses[1].price_per_kg),
                  ROneMinus(calculate_penalty(slaughterhouses[1], R(ret'.avg_weight_kg))))

C18_ReceiveClipsOrFails ==
    [][ReceiveCalled =>
          IF slaughterhouses[1].pigs_received_today
                 >= slaughterhouses[1].capacity_per_day
          THEN ReceiveRefused
          ELSE ReceiveDone]_vars

\* A request was clipped to the capacity left, at a weight that is penalised, and
\* the next request was refused.
C18_Witness ==
    /\ ret.op = "receive_pigs" /\ ~ret.ok
    /\ Len(slaughterhouses[1].daily_history) >= 1
    /\ \E i \in 1..Len(slaughterhouses[1].daily_history) :
           /\ slaughterhouses[1].daily_history[i].pigs_count
                  = slaughterhouses[1].capacity_per_day
           /\ slaughterhouses[1].daily_history[i].penalty_applied = Rat(20, 100)

\* C19 (as claimed): after reset_daily_counter a slaughterhouse has
\* pigs_received_today = 0, no accumulated weight and an empty daily_history; so
\* after a day that ended with the daily reset no slaughterhouse holds a receipt.
C19_ResetClearsHistory ==
    /\ (pc = "api_sh" /\ ret.op = "reset_daily_counter") =>
           /\ slaughterhouses[1].pigs_received_today = 0
           /\ slaughterhouses[1].total_weight_received = R(0)
           /\ slaughterhouses[1].daily_history = <<>>
    /\ (pc = "growth" /\ executed # <<>> /\ Last(executed).day = day - 1) =>
           \A k \in 1..Len(slaughterhouses) : slaughterhouses[k].daily_history = <<>>

\* What holds of reset_daily_counter: the two counters are zero after it.
C19_ResetClearsCounters ==
    /\ (pc = "api_sh" /\ ret.op = "reset_daily_counter") =>
           /\ slaughterhouses[1].pigs_received_today = 0
           /\ slaughterhouses[1].total_weight_received = R(0)
    /\ (pc = "growth" /\ executed # <<>> /\ Last(executed).day = day - 1) =>
           \A k \in 1..Len(slaughterhouses) :
               /\ slaughterhouses[k].pigs_received_today = 0
               /\ slaughterhouses[k].total_weight_received = R(0)

\* C20 (as claimed): in every state of a run each transport's status is AVAILABLE
\* or LOADING, and it is LOADING only while the transport has an active route.
C20_StatusMachine ==
    pc \in RunModes =>
        \A t \in 1..Len(transports) :
            /\ transports[t].status \in {"available", "loading"}
            /\ transports[t].status = "loading" => transports[t].current_route # <<>>

\* What holds of the status: it is AVAILABLE or LOADING, and a transport with an
\* active route is LOADING.
C20_StatusValues ==
    pc \in RunModes =>
        \A t \in 1..Len(transports) :
            /\ transports[t].status \in {"available", "loading"}
            /\ transports[t].current_route # <<>> => transports[t].status = "loading"

\* A plan has just been returned by build_daily_plan: to the day loop, before the
\* first route is executed, or to a direct caller.
PlanReturned ==
    \/ pc = "start" /\ route_index = 0
    \/ pc = "api_router" /\ ret.op = "build_daily_plan"

\* The current_day the plan was made for.
PlanDay == IF pc = "api_router" THEN ret.current_day ELSE day

\* C21: every route of a plan returned by build_daily_plan has between 1 and
\* max_stops_per_route stops, every stop picks at least 1 pig, and no farm is
\* visited twice in one route.
C21_RouteShape ==
    PlanReturned =>
        \A i \in 1..Len(planned_routes) :
            LET stops == planned_routes[i].stops
            IN /\ Len(stops) >= 1
               /\ Len(stops) <= max_stops_per_route
               /\ \A k \in 1..Len(stops) : stops[k].pigs_to_pick >= 1
               /\ \A k \in 1..Len(stops), l \in 1..Len(stops) :
                      k # l => stops[k].farm # stops[l].farm

\* A route of max_stops_per_route stops was closed although its transport had
\* room for more: a fourth farm is picked up by the next route of the plan.
C21_Witness ==
    /\ PlanReturned
    /\ Len(planned_routes) >= 2
    /\ Len(planned_routes[1].stops) = max_stops_per_route
    /\ planned_routes[2].transport = planned_routes[1].transport
    /\ \A k \in 1..max_stops_per_route :
           planned_routes[1].stops[k].farm # planned_routes[2].stops[1].farm

\* C22: no step of a run resets a weekly counter: each transport's
\* hours_used_this_week never decreases and its routes_completed only grows at
\* the end, and each farm's pigs_delivered_week never decreases, on every day and
\* across the boundaries of the 5-day blocks.
IsPrefix(a, b) == Len(a) <= Len(b) /\ SubSeq(b, 1, Len(a)) = a

WeeklyCountersKept ==
    /\ \A t \in 1..Len(transports) :
           /\ transports'[t].hours_used_this_week >= transports[t].hours_used_this_week
           /\ IsPrefix(transports[t].routes_completed, transports'[t].routes_completed)
    /\ \A f \in 1..Len(farms) :
           farms'[f].pigs_delivered_week >= farms[f].pigs_delivered_week

C23_OneRoutePerFarm ==
    PlanReturned =>
        \A i \in 1..Len(planned_routes), j \in 1..Len(planned_routes) :
            i # j =>
                \A k \in 1..Len(planned_routes[i].stops), l \in 1..Len(planned_routes[j].stops) :
                    planned_routes[i].stops[k].farm # planned_routes[j].stops[l].farm

\* C24 (as claimed): when _execute_route is about to call start_route on the
\* transport of a planned route, that transport has no active route, no load and
\* no pigs aboard.
C24_StartsOnIdleTransport ==
    pc = "start" =>
        LET transport == transports[planned_routes[route_index + 1].transport]
        IN /\ transport.current_route = <<>>
           /\ transport.current_load_kg = 0
           /\ transport.pigs_aboard = 0

\* C25 (as claimed): at the end of a run the inventory taken from the farms
\* (initial minus final, summed over the farms) equals the sum of pigs_delivered
\* over the events of the log.
RECURSIVE TotalInventory(_)
TotalInventory(F) ==
    IF F = <<>> THEN 0 ELSE Head(F).inventory_pigs + TotalInventory(Tail(F))

RECURSIVE TotalDelivered(_)
TotalDelivered(evs) ==
    IF evs = <<>> THEN 0 ELSE Head(evs).pigs_delivered + TotalDelivered(Tail(evs))

C25_UnitConservation ==
    pc = "done" =>
        TotalInventory(initial_farms) - TotalInventory(farms) = TotalDelivered(events)

\* C26: the pigs_delivered of every event is the pigs_count of the receipt that
\* receive_pigs returned for its route; in a run receive_pigs is never refused
\* and never clips, the pigs loaded for a slaughterhouse never exceeding its
\* available capacity.
C26_ReceiptMatchesEvent ==
    /\ \A i \in 1..Len(events) :
           events[i].pigs_delivered = ExecutedOf(events[i]).receipt.pigs_count
    /\ \A i \in 1..Len(executed) :
           executed[i].sh_called =>
               /\ executed[i].sh_ok
               /\ executed[i].receipt.pigs_count = executed[i].total_pigs_loaded
               /\ executed[i].total_pigs_loaded
                      <= slaughterhouses[executed[i].slaughterhouse].capacity_per_day
                         - executed[i].received_before

\* An event of a route that brought a slaughterhouse, which had received pigs
\* before, exactly to its capacity.
C26_Witness ==
    \E i \in 1..Len(events) :
        /\ ExecutedOf(events[i]).received_before > 0
        /\ events[i].pigs_delivered
               = slaughterhouses[events[i].slaughterhouse_id].capacity_per_day
                 - ExecutedOf(events[i]).received_before

\* C27: in a plan, the time_hours of the routes of one transport sum to at most
\* max_hours_per_day, the time of a route being the distance of its path
\* (slaughterhouse, its stops in order, slaughterhouse) divided by speed_kmh.
RECURSIVE HoursOfTransport(_, _)
HoursOfTransport(routes, t) ==
    IF routes = <<>> THEN 0
    ELSE (IF Head(routes).transport = t THEN Head(routes).time_hours ELSE 0)
         + HoursOfTransport(Tail(routes), t)

PathOf(route) == [k \in 1..Len(route.stops) |-> route.stops[k].farm]

C27_DailyHoursWithinLimit ==
    PlanReturned =>
        /\ \A t \in 1..Len(transports) :
               HoursOfTransport(planned_routes, t) <= max_hours_per_day
        /\ \A i \in 1..Len(planned_routes) :
               /\ planned_routes[i].distance_km
                      = route_distance_km(farms, slaughterhouses[planned_routes[i].slaughterhouse],
                                          PathOf(planned_routes[i]))
               /\ planned_routes[i].time_hours * speed_kmh = planned_routes[i].distance_km

\* The only transport has hours left in its day, and a farm that is a candidate
\* of the day is left out of the plan, a route to it being too long for the
\* hours left.
C27_Witness ==
    /\ PlanReturned
    /\ Len(transports) = 1
    /\ Len(slaughterhouses) = 1
    /\ 0 < HoursOfTransport(planned_routes, 1)
    /\ HoursOfTransport(planned_routes, 1) < max_hours_per_day
    /\ \E f \in 1..Len(farms) :
           /\ InRoute(f, select_candidate_farms(farms, PlanDay))
           /\ StopsOfFarm(planned_routes, f) = <<>>
           /\ HoursOfTransport(planned_routes, 1)
                  + route_time_hours(route_distance_km(farms, slaughterhouses[1], <<f>>))
                  > max_hours_per_day
           /\ SumPigs(StopsToSlaughterhouse(planned_routes, 1))
                  < get_available_capacity(slaughterhouses[1])

\* C28: the planned load of every route of a plan (the pigs of its stops at the
\* farms' current weights) is at most the payload of its transport; and a
\* transport that carries nothing but the pigs of the route being executed loads
\* every pickup in full.
C28_PlannedLoadFits ==
    PlanReturned =>
        \A i \in 1..Len(planned_routes) :
            SumLoad(farms, planned_routes[i].stops)
                <= capacity_kg(transports[planned_routes[i].transport])

PickupInFull ==
    LET planned == planned_routes[route_index + 1]
        stop == planned.stops[stop_index]
    IN transports[planned.transport].current_load_kg = loc.total_weight_kg =>
           \/ farms' = farms /\ loc' = loc
           \/ /\ farms'[stop.farm].inventory_pigs
                     = farms[stop.farm].inventory_pigs - stop.pigs_to_pick
              /\ loc'.total_pigs_loaded = loc.total_pigs_loaded + stop.pigs_to_pick
              /\ transports'[planned.transport].pigs_aboard
                     = transports[planned.transport].pigs_aboard + stop.pigs_to_pick

C28_NoClipping == [][(pc = "stop") => PickupInFull]_vars

C28_PlanFitsTransport == []C28_PlannedLoadFits /\ C28_NoClipping

\* A route of two stops has been loaded in full on an empty transport, and not
\* one more pig of its last farm, which has pigs left, would have fitted.
C28_Witness ==
    /\ pc = "finish"
    /\ Len(planned_routes[route_index + 1].stops) = 2
    /\ loc.total_pigs_loaded = SumPigs(planned_routes[route_index + 1].stops)
    /\ transports[planned_routes[route_index + 1].transport].current_load_kg
           = loc.total_weight_kg
    /\ farms[planned_routes[route_index + 1].stops[2].farm].inventory_pigs > 0
    /\ loc.total_weight_kg
           + get_current_weight(farms[planned_routes[route_index + 1].stops[2].farm])
           > capacity_kg(transports[planned_routes[route_index + 1].transport])

\* C29: the working maps of a planning pass never go negative: the pigs planned
\* from a farm, over all routes of the plan, are at most its inventory when the
\* plan is made, and the pigs planned for a slaughterhouse at most its
\* get_available_capacity() at that time.
PlannedFromFarm(f) == SumPigs(StopsOfFarm(planned_routes, f))

PlannedForSlaughterhouse(k) == SumPigs(StopsToSlaughterhouse(planned_routes, k))

RoutesTo(k) == {i \in 1..Len(planned_routes) : planned_routes[i].slaughterhouse = k}

C29_WorkingMapsNonNegative ==
    PlanReturned =>
        /\ \A f \in 1..Len(farms) :
               /\ 0 <= PlannedFromFarm(f)
               /\ PlannedFromFarm(f) <= farms[f].inventory_pigs
        /\ \A k \in 1..Len(slaughterhouses) :
               /\ 0 <= PlannedForSlaughterhouse(k)
               /\ PlannedForSlaughterhouse(k) <= get_available_capacity(slaughterhouses[k])

\* A plan that takes the whole inventory of a farm in several stops and fills a
\* slaughterhouse to its available capacity with several routes.
C29_Witness ==
    /\ PlanReturned
    /\ \E f \in 1..Len(farms) :
           /\ Len(StopsOfFarm(planned_routes, f)) >= 2
           /\ PlannedFromFarm(f) = farms[f].inventory_pigs
    /\ \E k \in 1..Len(slaughterhouses) :
           /\ Cardinality(RoutesTo(k)) >= 2
           /\ PlannedForSlaughterhouse(k) = get_available_capacity(slaughterhouses[k])

\* C30: the slaughterhouse of every route of a plan is one nearest to the seed of
\* the route (the heaviest candidate farm that has pigs left when the route is
\* built and can deliver today) among the slaughterhouses that have capacity
\* left at that moment; a route is never planned to a slaughterhouse without
\* capacity left.
RoutesBefore(i) == SubSeq(planned_routes, 1, i - 1)

IsCandidate(f) ==
    /\ farms[f].inventory_pigs > 0
    /\ can_deliver_today(farms[f], PlanDay)
    /\ get_current_weight(farms[f]) >= min_market_weight_kg

PigsLeftBefore(i, f) ==
    (IF IsCandidate(f) THEN farms[f].inventory_pigs ELSE 0)
        - SumPigs(StopsOfFarm(RoutesBefore(i), f))

CapacityLeftBefore(i, k) ==
    get_available_capacity(slaughterhouses[k])
        - SumPigs(StopsToSlaughterhouse(RoutesBefore(i), k))

FeasibleBefore(i) == {f \in 1..Len(farms) : IsCandidate(f) /\ PigsLeftBefore(i, f) > 0}

HeaviestBefore(i) ==
    {f \in FeasibleBefore(i) :
        \A g \in FeasibleBefore(i) :
            get_current_weight(farms[f]) >= get_current_weight(farms[g])}

\* Of equally heavy farms the stable sorts keep the first of the input.
SeedOf(i) == CHOOSE f \in HeaviestBefore(i) : \A g \in HeaviestBefore(i) : f <= g

DistanceFrom(f, k) == haversine_km(farms[f].lat, slaughterhouses[k].lat)

NearestWithCapacityLeft(i, f) ==
    /\ CapacityLeftBefore(i, planned_routes[i].slaughterhouse) > 0
    /\ \A k \in 1..Len(slaughterhouses) :
           CapacityLeftBefore(i, k) > 0 =>
               DistanceFrom(f, planned_routes[i].slaughterhouse) <= DistanceFrom(f, k)

C30_NearestSlaughterhouseToSeed ==
    PlanReturned =>
        \A i \in 1..Len(planned_routes) :
            /\ HeaviestBefore(i) # {}
            /\ NearestWithCapacityLeft(i, SeedOf(i))

\* A route goes to the second slaughterhouse of the list, which is nearer to its
\* seed than the first, and a later route goes to the first, farther from its
\* seed, the nearer one having no capacity left.
C30_Witness ==
    /\ PlanReturned
    /\ Len(slaughterhouses) = 2
    /\ \E i \in 1..Len(planned_routes), j \in 1..Len(planned_routes) :
           /\ i < j
           /\ planned_routes[i].slaughterhouse = 2
           /\ DistanceFrom(SeedOf(i), 2) < DistanceFrom(SeedOf(i), 1)
           /\ CapacityLeftBefore(i, 1) > 0
           /\ planned_routes[j].slaughterhouse = 1
           /\ DistanceFrom(SeedOf(j), 2) < DistanceFrom(SeedOf(j), 1)
           /\ CapacityLeftBefore(j, 2) = 0

\* C31 (as claimed): the first stop of every planned route is the seed of the
\* route, the heaviest candidate farm with pigs left that can deliver today.
FirstStopOf(i) == planned_routes[i].stops[1].farm

StopsBefore(i, k) == SubSeq(planned_routes[i].stops, 1, k - 1)

PathBefore(i, k) == [j \in 1..(k - 1) |-> planned_routes[i].stops[j].farm]

PayloadLeftAt(i, k) ==
    capacity_kg(transports[planned_routes[i].transport]) - SumLoad(farms, StopsBefore(i, k))

CapacityLeftAt(i, k) ==
    CapacityLeftBefore(i, planned_routes[i].slaughterhouse) - SumPigs(StopsBefore(i, k))

PigsPossibleAt(i, k, f) ==
    Min3(PayloadLeftAt(i, k) \div get_current_weight(farms[f]),
         PigsLeftBefore(i, f),
         CapacityLeftAt(i, k))

FeasibleAt(i, k) ==
    {f \in FeasibleBefore(i) : ~InRoute(f, PathBefore(i, k)) /\ PigsPossibleAt(i, k, f) >= 1}

IncrementalAt(i, k, f) ==
    route_distance_km(farms, slaughterhouses[planned_routes[i].slaughterhouse],
                      Append(PathBefore(i, k), f))
        - route_distance_km(farms, slaughterhouses[planned_routes[i].slaughterhouse],
                            PathBefore(i, k))

C32_NearestInsertion ==
    PlanReturned =>
        \A i \in 1..Len(planned_routes) :
            \A k \in 1..Len(planned_routes[i].stops) :
                LET stop == planned_routes[i].stops[k]
                IN /\ stop.farm \in FeasibleAt(i, k)
                   /\ stop.pigs_to_pick = PigsPossibleAt(i, k, stop.farm)
                   /\ \A g \in FeasibleAt(i, k) :
                          IncrementalAt(i, k, stop.farm) <= IncrementalAt(i, k, g)

\* A second stop that is not the heaviest of the feasible candidates but the
\* nearest, a farther candidate being feasible too, and whose pigs are what the
\* payload left by the first stop holds, less than the farm has.
C32_Witness ==
    /\ PlanReturned
    /\ \E i \in 1..Len(planned_routes) :
           /\ Len(planned_routes[i].stops) >= 2
           /\ \E g \in FeasibleAt(i, 2) :
                  /\ IncrementalAt(i, 2, g) > IncrementalAt(i, 2, planned_routes[i].stops[2].farm)
                  /\ get_current_weight(farms[g])
                         > get_current_weight(farms[planned_routes[i].stops[2].farm])
           /\ planned_routes[i].stops[2].pigs_to_pick
                  = PayloadLeftAt(i, 2) \div get_current_weight(farms[planned_routes[i].stops[2].farm])
           /\ planned_routes[i].stops[2].pigs_to_pick
                  < PigsLeftBefore(i, planned_routes[i].stops[2].farm)

\* C33 (as claimed): of feasible candidates of equal incremental distance the one
\* earlier in the input list of the farms is appended.
C33_Original ==
    PlanReturned =>
        \A i \in 1..Len(planned_routes) :
            \A k \in 1..Len(planned_routes[i].stops) :
                \A g \in FeasibleAt(i, k) :
                    IncrementalAt(i, k, g) = IncrementalAt(i, k, planned_routes[i].stops[k].farm)
                        => planned_routes[i].stops[k].farm <= g

\* The position of farm f in the candidate list: heavier farms first, farms of
\* equal weight in input order.
BeforeInCandidates(f, g) ==
    \/ get_current_weight(farms[f]) > get_current_weight(farms[g])
    \/ get_current_weight(farms[f]) = get_current_weight(farms[g]) /\ f <= g

InitialPigs == [f \in 1..Len(farms) |-> IF IsCandidate(f) THEN farms[f].inventory_pigs ELSE 0]

\* C33: ties go to the first of the scanned list.  Of feasible candidates of
\* equal incremental distance the one earlier in the candidate list (sorted by
\* weight, heaviest first, equal weights in input order) is appended; of farms
\* of equal weight the one earlier in the input is the seed; of slaughterhouses
\* with capacity left equally near to the seed the one earlier in the input is
\* the destination.
C33_FirstOfScannedListWins ==
    PlanReturned =>
        /\ \A i \in 1..Len(planned_routes) :
               /\ \A k \in 1..Len(planned_routes[i].stops) :
                      \A g \in FeasibleAt(i, k) :
                          IncrementalAt(i, k, g)
                                  = IncrementalAt(i, k, planned_routes[i].stops[k].farm)
                              => BeforeInCandidates(planned_routes[i].stops[k].farm, g)
               /\ \A s \in 1..Len(slaughterhouses) :
                      (/\ CapacityLeftBefore(i, s) > 0
                       /\ DistanceFrom(SeedOf(i), s)
                              = DistanceFrom(SeedOf(i), planned_routes[i].slaughterhouse))
                          => planned_routes[i].slaughterhouse <= s
        /\ planned_routes # <<>> =>
               /\ seed_farm(farms, PlanDay, select_candidate_farms(farms, PlanDay), InitialPigs)
                      \in FeasibleBefore(1)
               /\ \A g \in FeasibleBefore(1) :
                      BeforeInCandidates(
                          seed_farm(farms, PlanDay, select_candidate_farms(farms, PlanDay),
                                    InitialPigs), g)

\* A plan with all three ties: a stop taken before a lighter farm earlier in the
\* input at the same incremental distance, two farms of the seed's weight, and a
\* route to the first of two slaughterhouses, both with capacity left and equally
\* near to the seed.
C33_WitnessCandidateTie ==
    \E i \in 1..Len(planned_routes) :
        \E k \in 1..Len(planned_routes[i].stops) :
            \E g \in FeasibleAt(i, k) :
                /\ IncrementalAt(i, k, g) = IncrementalAt(i, k, planned_routes[i].stops[k].farm)
                /\ g < planned_routes[i].stops[k].farm
                /\ get_current_weight(farms[g])
                       < get_current_weight(farms[planned_routes[i].stops[k].farm])

C33_WitnessSeedTie ==
    \E g \in FeasibleBefore(1) :
        /\ g # SeedOf(1)
        /\ get_current_weight(farms[g]) = get_current_weight(farms[SeedOf(1)])

C33_WitnessDestinationTie ==
    \E i \in 1..Len(planned_routes) :
        \E s \in 1..Len(slaughterhouses) :
            /\ s # planned_routes[i].slaughterhouse
            /\ CapacityLeftBefore(i, s) > 0
            /\ slaughterhouses[s].lat # slaughterhouses[planned_routes[i].slaughterhouse].lat
            /\ DistanceFrom(SeedOf(i), s)
                   = DistanceFrom(SeedOf(i), planned_routes[i].slaughterhouse)

C33_Witness ==
    /\ PlanReturned
    /\ planned_routes # <<>>
    /\ C33_WitnessCandidateTie
    /\ C33_WitnessSeedTie
    /\ C33_WitnessDestinationTie

\* C34: every farm that is a stop of a plan is a candidate of the plan's day:
\* inventory above 0, can_deliver_today true and weight at least
\* min_market_weight_kg at planning time; a pickup is only made at such a farm,
\* and every farm of an event weighed at least min_market_weight_kg on the
\* event's day, after the growth of that day.
WeightOnDay(f, d) ==
    initial_farms[f].avg_weight_kg
        + (d + 1) * (initial_farms[f].growth_rate_kg_per_week \div DaysPerWeek)

C34_StopsAreCandidates ==
    /\ PlanReturned =>
           \A i \in 1..Len(planned_routes) :
               \A k \in 1..Len(planned_routes[i].stops) :
                   IsCandidate(planned_routes[i].stops[k].farm)
    /\ \A e \in 1..Len(events) :
           \A j \in 1..Len(events[e].farms_visited) :
               WeightOnDay(events[e].farms_visited[j], events[e].day) >= min_market_weight_kg

PickupAtCandidate ==
    LET f == planned_routes[route_index + 1].stops[stop_index].farm
    IN farms'[f] # farms[f] => IsCandidate(f)

C34_PickupsAtCandidates == [][(pc = "stop") => PickupAtCandidate]_vars

C34_OnlyMarketWeightPickedUp == []C34_StopsAreCandidates /\ C34_PickupsAtCandidates

\* The plan of a day of a run takes a farm that has just reached
\* min_market_weight_kg and was left out of the events of the days before, and
\* leaves out a farm that has pigs of market weight but delivered in this block.
C34_Witness ==
    /\ pc = "start" /\ route_index = 0
    /\ events # <<>>
    /\ \E f \in 1..Len(farms) :
           /\ StopsOfFarm(planned_routes, f) # <<>>
           /\ get_current_weight(farms[f]) = min_market_weight_kg
           /\ farms[f].last_delivery_day = NeverDelivered
    /\ \E g \in 1..Len(farms) :
           /\ StopsOfFarm(planned_routes, g) = <<>>
           /\ farms[g].inventory_pigs > 0
           /\ get_current_weight(farms[g]) >= min_market_weight_kg
           /\ ~can_deliver_today(farms[g], day)

\* C35: the event log only grows at its end, one event at a time; its events are
\* ordered by day and, within a day, by strictly increasing route_index; the
\* route_ids of a run are pairwise different; and an event of the current day
\* is the event of the planned route at its route_index, the routes of a plan
\* being grouped by transport in input order.
EventsOrdered ==
    \A i \in 1..Len(events), j \in 1..Len(events) :
        i < j =>
            /\ events[i].day <= events[j].day
            /\ events[i].day = events[j].day => events[i].route_index < events[j].route_index
            /\ events[i].route_id # events[j].route_id

EventsFollowPlan ==
    pc \in {"start", "stop", "finish", "reset"} =>
        /\ \A i \in 1..Len(events) :
               events[i].day = day =>
                   /\ events[i].route_index < route_index
                   /\ events[i].route_id = route_identifier(day, events[i].route_index)
                   /\ events[i].transport_id
                          = planned_routes[events[i].route_index + 1].transport
                   /\ events[i].slaughterhouse_id
                          = planned_routes[events[i].route_index + 1].slaughterhouse
        /\ \A i \in 1..Len(planned_routes), j \in 1..Len(planned_routes) :
               i < j => planned_routes[i].transport <= planned_routes[j].transport

C35_EventsOrdered == (pc \in RunModes) => (EventsOrdered /\ EventsFollowPlan)

EventsAppended ==
    \/ events' = events
    \/ /\ Len(events') = Len(events) + 1
       /\ IsPrefix(events, events')
       /\ Last(events').day = day
       /\ Last(events').route_index = route_index

C35_AppendOnly == [][(pc \in RunModes) => EventsAppended]_vars

C35_EventLogOrdered == []C35_EventsOrdered /\ C35_AppendOnly

\* A log with two events of one day, of routes of different transports, the
\* route between them having left no event, and an event of a later day with
\* the route_index of an earlier one.
C35_Witness ==
    /\ pc = "done"
    /\ \E i \in 1..Len(events), j \in 1..Len(events) :
           /\ events[i].day = events[j].day
           /\ events[j].route_index > events[i].route_index + 1
           /\ events[i].transport_id < events[j].transport_id
    /\ \E i \in 1..Len(events), j \in 1..Len(events) :
           /\ events[i].day < events[j].day
           /\ events[i].route_index = events[j].route_index

\* C36: in a run every farm has grown exactly once on each day that has begun,
\* before that day's plan: its weight is its initial weight plus one daily
\* increment (growth_rate_kg_per_week / 7) per growth step, and its age one day
\* more per step; between the growth step of a day and the growth step of the
\* next no weight changes, so the weight read at a pickup is the weight the
\* planner used.
GrowthSteps == IF pc \in {"growth", "done"} THEN day ELSE day + 1

C36_GrownOncePerDay ==
    (pc \in RunModes) =>
        \A f \in 1..Len(farms) :
            /\ farms[f].avg_weight_kg
                   = initial_farms[f].avg_weight_kg
                     + GrowthSteps * (initial_farms[f].growth_rate_kg_per_week \div DaysPerWeek)
            /\ farms[f].age_days = initial_farms[f].age_days + GrowthSteps
            /\ farms[f].growth_rate_kg_per_week = initial_farms[f].growth_rate_kg_per_week

WeightsKept ==
    \A f \in 1..Len(farms) : get_current_weight(farms'[f]) = get_current_weight(farms[f])

GrowthThenPlan ==
    /\ \A f \in 1..Len(farms) :
           get_current_weight(farms'[f])
               = get_current_weight(farms[f]) + farms[f].growth_rate_kg_per_week \div DaysPerWeek
    /\ pc' = "plan"

C36_GrowthOnlyBeforePlanning ==
    [][(pc \in RunModes) => IF pc = "growth" /\ pc' # "done" THEN GrowthThenPlan ELSE WeightsKept]_vars

C36_GrowthBeforePlanning == []C36_GrownOncePerDay /\ C36_GrowthOnlyBeforePlanning

\* On the third day of a run a farm that started at 102 kg and grows 1 kg a day
\* weighs 105 kg, and its pigs have been loaded at that weight.
C36_Witness ==
    /\ pc = "finish"
    /\ day = 2
    /\ loc.total_pigs_loaded > 0
    /\ \E f \in 1..Len(farms) :
           /\ InRoute(f, loc.farms_visited_ids)
           /\ initial_farms[f].avg_weight_kg = 102
           /\ get_current_weight(farms[f]) = min_market_weight_kg
           /\ loc.total_weight_kg = loc.total_pigs_loaded * min_market_weight_kg

\* C37: a complete_route(distance_km, time_hours) that succeeds appends exactly
\* one route, the active one, to routes_completed, adds exactly time_hours to
\* hours_used_this_week, and leaves current_load_kg 0, pigs_aboard 0, no active
\* route and status AVAILABLE; the info returned reports the pigs and the load
\* that were aboard before they were reset.
CompletedFrom(before, after, distance_km, time_hours) ==
    /\ Len(after.routes_completed) = Len(before.routes_completed) + 1
    /\ IsPrefix(before.routes_completed, after.routes_completed)
    /\ Last(after.routes_completed).route_id = before.current_route[1].route_id
    /\ Last(after.routes_completed).pigs_loaded = before.pigs_aboard
    /\ Last(after.routes_completed).current_load_kg = before.current_load_kg
    /\ Last(after.routes_completed).total_distance_km = distance_km
    /\ Last(after.routes_completed).total_time_hours = time_hours
    /\ after.hours_used_this_week = before.hours_used_this_week + time_hours
    /\ after.current_load_kg = 0
    /\ after.pigs_aboard = 0
    /\ after.current_route = <<>>
    /\ after.status = "available"

CompleteReturned ==
    ret'.ok =>
        /\ CompletedFrom(transports[1], transports'[1], ret'.distance_km, ret'.time_hours)
        /\ ret'.info.pigs_delivered = transports[1].pigs_aboard
        /\ ret'.info.load_kg = transports[1].current_load_kg
        /\ ret'.info.distance_km = ret'.distance_km
        /\ ret'.info.time_hours = ret'.time_hours

RouteCompleted ==
    Last(executed').tr_ok =>
        CompletedFrom(transports[planned_routes[route_index + 1].transport],
                      transports'[planned_routes[route_index + 1].transport],
                      planned_routes[route_index + 1].distance_km,
                      planned_routes[route_index + 1].time_hours)

C37_CompleteRouteResets ==
    [][(CompleteCalled => CompleteReturned) /\ ((pc = "finish") => RouteCompleted)]_vars

\* A transport that was loaded on an active route has completed it: the route
\* in its history and the info returned carry the pigs and the load, the
\* transport carries nothing.
C37_Witness ==
    /\ pc = "api_transport"
    /\ ret.op = "complete_route" /\ ret.ok
    /\ ret.info.pigs_delivered > 0
    /\ ret.info.load_kg > 0
    /\ Len(transports[1].routes_completed) = 1
    /\ transports[1].routes_completed[1].pigs_loaded = ret.info.pigs_delivered
    /\ transports[1].routes_completed[1].current_load_kg = ret.info.load_kg
    /\ transports[1].current_load_kg = 0 /\ transports[1].pigs_aboard = 0
    /\ transports[1].current_route = <<>> /\ transports[1].status = "available"
    /\ transports[1].hours_used_this_week = ret.time_hours

\* C38: load_pigs(pigs_count, avg_weight_kg) takes the requested pigs, or, when
\* their weight exceeds get_available_capacity_kg(), floor(available kg /
\* avg_weight_kg) pigs (0 for a weight <= 0); it fails, changing nothing and
\* returning 0, exactly when that amount is 0; otherwise current_load_kg grows by
\* amount * avg_weight_kg, pigs_aboard by amount, and the amount returned is at
\* most the request.
AmountToLoad(transport, pigs_count, avg_weight_kg) ==
    IF pigs_count * avg_weight_kg > Max(0, capacity_kg(transport) - transport.current_load_kg)
    THEN IF avg_weight_kg <= 0 THEN 0
         ELSE Max(0, capacity_kg(transport) - transport.current_load_kg) \div avg_weight_kg
    ELSE pigs_count

LoadedFrom(before, after, pigs_count, avg_weight_kg, ok, loaded) ==
    IF AmountToLoad(before, pigs_count, avg_weight_kg) = 0
    THEN ~ok /\ loaded = 0 /\ after = before
    ELSE /\ ok
         /\ loaded = AmountToLoad(before, pigs_count, avg_weight_kg)
         /\ loaded <= pigs_count
         /\ after = [before EXCEPT !.current_load_kg = @ + loaded * avg_weight_kg,
                                   !.pigs_aboard = @ + loaded]

LoadCalled == api_calls' = api_calls + 1 /\ ret'.op = "load_pigs"

LoadReturned ==
    LoadedFrom(transports[1], transports'[1], ret'.pigs_count, ret'.avg_weight_kg,
               ret'.ok, ret'.loaded)

\* The load_pigs of a stop of a run, called when deliver_pigs has succeeded.
StopLoaded ==
    LET planned == planned_routes[route_index + 1]
        stop == planned.stops[stop_index]
    IN farms'[stop.farm] # farms[stop.farm] =>
           LoadedFrom(transports[planned.transport], transports'[planned.transport],
                      stop.pigs_to_pick, get_current_weight(farms[stop.farm]),
                      loc' # loc, loc'.total_pigs_loaded - loc.total_pigs_loaded)

C38_LoadClipsOrFails ==
    [][(LoadCalled => LoadReturned) /\ ((pc = "stop") => StopLoaded)]_vars

\* A load was clipped: fewer pigs than requested were loaded, and not one more
\* of them fits on the transport.
C38_Witness ==
    /\ pc = "api_transport"
    /\ ret.op = "load_pigs" /\ ret.ok
    /\ 0 < ret.loaded /\ ret.loaded < ret.pigs_count
    /\ transports[1].current_load_kg > ret.loaded * ret.avg_weight_kg
    /\ transports[1].current_load_kg <= capacity_kg(transports[1])
    /\ transports[1].current_load_kg + ret.avg_weight_kg > capacity_kg(transports[1])

\* A request refused for a weight below zero: no pig is counted as fitting.
C38_WitnessNoWeight ==
    /\ pc = "api_transport"
    /\ ret.op = "load_pigs" /\ ~ret.ok
    /\ ret.pigs_count # 0
    /\ ret.avg_weight_kg <= 0
    /\ ret.pigs_count * ret.avg_weight_kg > get_available_capacity_kg(transports[1])

\* C39 (as claimed): the transport_cost of every event is distance_km *
\* cost_per_km * (pigs_delivered * avg_weight_kg / payload in kg), the mass loaded
\* on the event's own route.
REq(x, y) == x.n * y.d = y.n * x.d

MassOfEvent(e) == RMul(R(e.pigs_delivered), e.avg_weight_kg)

CostOfOwnLoad(e) ==
    RMul(R(e.distance_km * transports[e.transport_id].cost_per_km),
         RMul(MassOfEvent(e), Rat(1, capacity_kg(transports[e.transport_id]))))

CompletedRouteOf(e) ==
    CHOOSE r \in {transports[e.transport_id].routes_completed[j] :
                      j \in 1..Len(transports[e.transport_id].routes_completed)} :
        r.route_id = e.route_id

====
